---- MODULE Spec2Model ----
(***************************************************************************)
(* Model of the caches of chinese-simplifier/server.js.                    *)
(*                                                                         *)
(* Spec: the POST /api/analyze-text handler, the text_analysis table it    *)
(* reads and upserts, and the external capabilities it calls (nodejieba    *)
(* segmentation, the Anthropic messages API).                              *)
(* SpecLookup: the POST /api/lookup-definitions handler, the CC-CEDICT     *)
(* dictionary and the transcript_translations table.                       *)
(* SpecListen: handleGenerateTranscript of Listen.jsx with the handlers    *)
(* of /api/check-transcript-cache and /api/transcribe and the              *)
(* audio_transcripts table.                                                *)
(* The three share the variables; in each, the requests of the other two   *)
(* stay idle.                                                              *)
(* SpecStores: one request to each of the three endpoints, interleaved.    *)
(* SpecSegment: the phrase loops of /api/segment-text and                  *)
(* /api/analyze-text applied to a text and its segments.                   *)
(* SpecParse: the numbered-reply parsing of /api/analyze-text and          *)
(* /api/lookup-definitions applied to a reply given as text.               *)
(* SpecParseRepeats: the same, for batches that repeat a phrase.           *)
(* SpecTranscribe: SpecListen with uploads that may lack the file or the   *)
(* hash.                                                                   *)
(* SpecSentences: the sentence splitting of server.js and of Reader.jsx    *)
(* applied to a text.                                                      *)
(* SpecListenPage: the effects of Listen.jsx that call the hook            *)
(* usePhraseSegmentation, and the replies to its analyze requests.         *)
(* SpecReaderPage: processText and handleClear of Reader.jsx over the      *)
(* same hook.                                                              *)
(* SpecListenFile: the file selection of Listen.jsx and the runs of        *)
(* handleGenerateTranscript.                                               *)
(*                                                                         *)
(* A request handler runs on node's single thread, so the code between     *)
(* two awaits is one atomic step.  The handler has four awaits (select,    *)
(* definition fetch, sentence fetch, upsert); each action below is the     *)
(* code that runs when one of them resolves, up to the next await.         *)
(*                                                                         *)
(* A text is a sequence of characters; a character is a string, classed    *)
(* by Ideographs, Terminators and Whitespace.  Offsets are 0-based as in   *)
(* JavaScript.  A JSON object is a function from keys to values, so two    *)
(* bundles are equal when they are equal as JSON values.                   *)
(***************************************************************************)
EXTENDS Integers, Sequences, FiniteSets, TLC

\* Number of analyze requests in one behaviour; any of them may overlap.
NumCalls == 2

Calls == 1..NumCalls

\* Number of selects and upserts the store fails in one behaviour.
MaxStoreErrors == 1

----------------------------------------------------------------------------
\* Characters and texts

Ideographs == {"zh1", "zh2"}
Terminators == {"stop", "nl"}
Whitespace == {"sp", "nl"}

\* TextA has two phrases to define and two sentences, TextB one of each.
TextA == <<"zh1", "zh2", "stop", "zh1">>
TextB == <<"zh1", "stop">>
EmptyText == << >>
EmptyHash == ""

Request(t, h, i) == [text |-> t, text_hash |-> h, include_sentences |-> i]

\* Request bodies: TextA under hash h1 with and without sentences, a second
\* text under the same hash (the handler does not check that text_hash is
\* the hash of text), a request under a second hash (a string that is also
\* the hash of an audio file), and the two malformed bodies.
Requests ==
  {Request(TextA, "h1", FALSE), Request(TextA, "h1", TRUE),
   Request(TextB, "h1", FALSE), Request(TextB, "a1", FALSE),
   Request(EmptyText, "h1", FALSE), Request(TextA, EmptyHash, FALSE)}

\* Words the tokenizer's dictionary knows.
Lexicon == {<<"zh1", "zh2">>}

Null == << >>
Just(v) == <<v>>
IsNull(v) == v = Null

EmptyMap == << >>
MapPut(m, k, v) == [x \in (DOMAIN m) \cup {k} |-> IF x = k THEN v ELSE m[x]]

Min(S) == CHOOSE x \in S : \A y \in S : x <= y

----------------------------------------------------------------------------
\* Segmentation

RECURSIVE cut(_)
cut(t) ==
  IF t = << >> THEN << >>
  ELSE IF Len(t) >= 2 /\ SubSeq(t, 1, 2) \in Lexicon
       THEN <<SubSeq(t, 1, 2)>> \o cut(SubSeq(t, 3, Len(t)))
       ELSE <<SubSeq(t, 1, 1)>> \o cut(Tail(t))

indexOfFromStart(t, s, from) ==
  LET hits == {i \in 0..(Len(t) - Len(s)) : SubSeq(t, i + 1, i + Len(s)) = s}
  IN IF hits = {} THEN -1 ELSE Min(hits)

\* String.prototype.indexOf(s, from) as line 289 calls it.
indexOf(t, s, from) ==
  LET hits == {i \in from..(Len(t) - Len(s)) : SubSeq(t, i + 1, i + Len(s)) = s}
  IN IF hits = {} THEN -1 ELSE Min(hits)

RECURSIVE BuildPhrases(_, _, _)
BuildPhrases(t, segments, currentIndex) ==
  IF segments = << >> THEN << >>
  ELSE LET segment == Head(segments)
           start == indexOf(t, segment, currentIndex)
           end == start + Len(segment)
       IN <<[text |-> segment, start |-> start, end |-> end]>>
            \o BuildPhrases(t, Tail(segments), end)

SegmentText(t) == BuildPhrases(t, cut(t), 0)

----------------------------------------------------------------------------
\* Definitions

HasChineseOrNot(chineseText) == TRUE

\* Line 307: /[\u4e00-\u9fa5]/.test(chineseText).
HasChinese(chineseText) == \E i \in 1..Len(chineseText) : chineseText[i] \in Ideographs

\* The handler looks phrases up through the identifier `dictionary`, which
\* the module never declares (the import is named cedict): the lookup
\* throws a ReferenceError, which the loop's catch turns into a miss.
DictionaryThrows(chineseText) == TRUE

RECURSIVE CollectNotFound(_)
CollectNotFound(ps) ==
  IF ps = << >> THEN << >>
  ELSE LET chineseText == Head(ps).text
       IN IF ~HasChinese(chineseText) THEN CollectNotFound(Tail(ps))
          ELSE IF DictionaryThrows(chineseText)
               THEN <<chineseText>> \o CollectNotFound(Tail(ps))
               ELSE CollectNotFound(Tail(ps))

\* A reply line is [num, body]: num is the leading integer matched by
\* /^(\d+)\.\s*(.+)/, or 0 when the line does not match.
Line(n, b) == [num |-> n, body |-> b]

FindLineByPosition(lines, k) ==
  IF k <= Len(lines) /\ lines[k].num >= 0 THEN Just(lines[k]) ELSE Null

FindLine(lines, k) ==
  LET hits == {i \in 1..Len(lines) : lines[i].num = k}
  IN IF hits = {} THEN Null ELSE Just(lines[Min(hits)])

RECURSIVE ParseDefinitions(_, _, _, _)
ParseDefinitions(defs, notFound, lines, idx) ==
  IF idx > Len(notFound) THEN defs
  ELSE LET definitionLine == FindLine(lines, idx)
           next == IF IsNull(definitionLine) THEN defs
                   ELSE MapPut(defs, notFound[idx],
                               [pinyin |-> "", definitions |-> definitionLine[1].body])
       IN ParseDefinitions(next, notFound, lines, idx + 1)

\* Replies the LLM can give to a batch of n numbered items: every line
\* present, or the first line missing; the two replies carry different
\* wording, as two requests to the LLM need not be answered alike.
LLMReplies(n) ==
  {[i \in 1..n |-> Line(i, "g1")], [i \in 1..(n - 1) |-> Line(i + 1, "g2")]}

----------------------------------------------------------------------------
\* Sentences

RECURSIVE MatchSentences(_, _)
MatchSentences(t, clause) ==
  IF t = << >> THEN (IF clause = << >> THEN << >> ELSE <<clause>>)
  ELSE IF Head(t) \in Terminators
       THEN IF clause = << >> THEN MatchSentences(Tail(t), << >>)
            ELSE <<Append(clause, Head(t))>> \o MatchSentences(Tail(t), << >>)
       ELSE MatchSentences(Tail(t), Append(clause, Head(t)))

RECURSIVE TrimLeft(_)
TrimLeft(s) == IF s # << >> /\ Head(s) \in Whitespace THEN TrimLeft(Tail(s)) ELSE s

RECURSIVE TrimRight(_)
TrimRight(s) ==
  IF s # << >> /\ s[Len(s)] \in Whitespace THEN TrimRight(SubSeq(s, 1, Len(s) - 1)) ELSE s

Trim(s) == TrimRight(TrimLeft(s))

KeepAll(ss) == ss

RECURSIVE TrimAll(_)
TrimAll(ss) ==
  IF ss = << >> THEN << >>
  ELSE IF Trim(Head(ss)) = << >> THEN TrimAll(Tail(ss))
       ELSE <<Trim(Head(ss))>> \o TrimAll(Tail(ss))

SplitSentences(t) ==
  LET matches == MatchSentences(t, << >>)
  IN TrimAll(IF matches = << >> THEN <<t>> ELSE matches)

\* Reader.jsx 715-719: usePhraseSegmentation's own copy of the split.
splitIntoSentences(t) ==
  LET matched == MatchSentences(t, << >>)
      sentences == IF matched = << >> THEN <<t>> ELSE matched
  IN TrimAll(sentences)

RECURSIVE ParseTranslations(_, _, _, _)
ParseTranslations(trs, sentences, lines, idx) ==
  IF idx > Len(sentences) THEN trs
  ELSE LET translationLine == FindLine(lines, idx)
           next == IF IsNull(translationLine) THEN trs
                   ELSE MapPut(trs, sentences[idx], translationLine[1].body)
       IN ParseTranslations(next, sentences, lines, idx + 1)

----------------------------------------------------------------------------
\* State

VARIABLES
  store,                \* table text_analysis: text_hash -> row
  storeErrors,          \* selects and upserts the store has failed so far
  apiKey,               \* process.env.VITE_ANTHROPIC_API_KEY is set
  pc,                   \* the await each request is suspended at
  text,                 \* req.body.text
  text_hash,            \* req.body.text_hash
  include_sentences,    \* req.body.include_sentences
  cachedAnalysis,       \* local cachedAnalysis: the row the select returned
  phrases,              \* local phrases
  definitions,          \* local definitions
  sentenceTranslations, \* local sentenceTranslations
  response,             \* what res.status(..).json(..) sent
  events,               \* what the request did and was answered, in order
  pred                  \* requests already answered when this one arrived

VARIABLES
  translations,         \* table transcript_translations: audio_hash -> translations
  lookupPc,             \* the await each lookup-definitions request is suspended at
  lookupBody,           \* req.body of the lookup-definitions request
  lookupDefinitions,    \* its local definitions
  translationsForCache, \* its local translationsForCache
  lookupResponse,       \* what it sent
  lookupEvents          \* what it did and was answered, in order

VARIABLES
  transcripts,          \* table audio_transcripts: file_hash -> transcript
  elevenlabsApiKey,     \* process.env.ELEVENLABS_API_KEY is set
  flowPc,               \* where each run of handleGenerateTranscript stands
  audioFile,            \* state audioFile of the component the run belongs to
  fileHash,             \* local fileHash
  transcript,           \* state transcript
  isCached,             \* state isCached
  transcriptError,      \* state transcriptError
  cacheResponse,        \* what the cache-check request was answered
  flowEvents            \* the requests the run made and their answers, in order

VARIABLES
  input,                \* the argument of a function checked on its own
  output                \* what the function returned, once applied

analyzeVars == <<store, pc, text, text_hash, include_sentences, cachedAnalysis,
                 phrases, definitions, sentenceTranslations, response, events, pred>>

lookupVars == <<translations, lookupPc, lookupBody, lookupDefinitions,
                translationsForCache, lookupResponse, lookupEvents>>

listenVars == <<transcripts, elevenlabsApiKey, flowPc, audioFile, fileHash,
                transcript, isCached, transcriptError, cacheResponse, flowEvents>>

pureVars == <<input, output>>

VARIABLES
  shownPhrases,         \* usePhraseSegmentation: phrases
  phraseTranslations,   \* usePhraseSegmentation: phraseTranslations
  isLoading,            \* usePhraseSegmentation: isLoading
  inFlight,             \* analyze requests sent and not yet answered, with their number
  lastText,             \* text of the latest call of segmentAndTranslate
  displayMode,          \* Listen: displayMode
  loadedText,           \* Listen: transcript.text
  transcriptEffect,     \* the effect on [transcript] has to run
  sentenceEffect,       \* the effect on [displayMode, text, phraseTranslations] has to run
  serverGives           \* what the server answers analyze requests with

pageVars == <<shownPhrases, phraseTranslations, isLoading, inFlight, lastText,
              displayMode, loadedText, transcriptEffect, sentenceEffect, serverGives>>

VARIABLES
  selectedFile,         \* Listen: audioFile, the file the page has selected
  shownTranscript       \* Listen: transcript, the transcript the page shows

fileVars == <<selectedFile, shownTranscript>>

vars == <<storeErrors, apiKey, analyzeVars, lookupVars, listenVars, pureVars, pageVars,
          fileVars>>

NoResponse == [status |-> 0]
ErrorResponse(code) == [status |-> code]
Bundle(p, d, s) == [phrases |-> p, definitions |-> d, sentence_translations |-> s]
OkResponse(b) == [status |-> 200, body |-> b]

RowOfNoPhrases(p, d, s) ==
  [segmented_phrases |-> << >>, phrase_definitions |-> d, sentence_translations |-> s]

RowLosingDefinitions(p, d, s) ==
  [segmented_phrases |-> p, phrase_definitions |-> EmptyMap, sentence_translations |-> s]

\* Lines 447-452: the row the upsert writes.
Row(p, d, s) == [segmented_phrases |-> p, phrase_definitions |-> d, sentence_translations |-> s]

InitAnalyze ==
  /\ store = << >>
  /\ pc = [c \in Calls |-> "idle"]
  /\ text = [c \in Calls |-> EmptyText]
  /\ text_hash = [c \in Calls |-> EmptyHash]
  /\ include_sentences = [c \in Calls |-> FALSE]
  /\ cachedAnalysis = [c \in Calls |-> Null]
  /\ phrases = [c \in Calls |-> << >>]
  /\ definitions = [c \in Calls |-> EmptyMap]
  /\ sentenceTranslations = [c \in Calls |-> Null]
  /\ response = [c \in Calls |-> NoResponse]
  /\ events = [c \in Calls |-> << >>]
  /\ pred = [c \in Calls |-> {}]

InitLookup ==
  /\ translations = << >>
  /\ lookupPc = [c \in Calls |-> "idle"]
  /\ lookupBody = [c \in Calls |-> [phrases |-> Null, audio_hash |-> ""]]
  /\ lookupDefinitions = [c \in Calls |-> EmptyMap]
  /\ translationsForCache = [c \in Calls |-> EmptyMap]
  /\ lookupResponse = [c \in Calls |-> NoResponse]
  /\ lookupEvents = [c \in Calls |-> << >>]

InitListen ==
  /\ transcripts = << >>
  /\ flowPc = [f \in Calls |-> "idle"]
  /\ audioFile = [f \in Calls |-> Null]
  /\ fileHash = [f \in Calls |-> ""]
  /\ transcript = [f \in Calls |-> Null]
  /\ isCached = [f \in Calls |-> FALSE]
  /\ transcriptError = [f \in Calls |-> Null]
  /\ cacheResponse = [f \in Calls |-> NoResponse]
  /\ flowEvents = [f \in Calls |-> << >>]

NoInput == input = Null /\ output = Null

\* A text long enough for the Listen page to take for a sentence.
LongText == <<"zh1", "zh2", "zh1", "zh2", "zh1", "zh2", "zh1", "zh2", "zh1", "zh2", "stop">>

PageTexts == {TextA, TextB, LongText}

AnalyzeRequests == {[text |-> t, include_sentences |-> i] : t \in PageTexts, i \in BOOLEAN}

\* useState defaults of the hook (Reader.jsx 710-712); no page is open.
InitHook ==
  /\ shownPhrases = << >>
  /\ phraseTranslations = EmptyMap
  /\ isLoading = FALSE
  /\ inFlight = EmptyMap
  /\ lastText = Null

\* Listen.jsx 31, 35: useState(null).
NoFile == selectedFile = Null /\ shownTranscript = Null

NoPage ==
  /\ InitHook /\ NoFile
  /\ displayMode = "translation"
  /\ loadedText = Null
  /\ transcriptEffect = FALSE
  /\ sentenceEffect = FALSE
  /\ serverGives = "sentences"

Init ==
  /\ storeErrors = 0
  /\ apiKey \in BOOLEAN
  /\ elevenlabsApiKey = TRUE
  /\ InitAnalyze /\ InitLookup /\ InitListen /\ NoPage /\ NoInput

\* The locals of a request are dropped when its handler returns.
Finish(c, r, evs) ==
  /\ pc' = [pc EXCEPT ![c] = "done"]
  /\ response' = [response EXCEPT ![c] = r]
  /\ events' = [events EXCEPT ![c] = events[c] \o evs \o <<"respond">>]
  /\ cachedAnalysis' = [cachedAnalysis EXCEPT ![c] = Null]
  /\ phrases' = [phrases EXCEPT ![c] = << >>]
  /\ definitions' = [definitions EXCEPT ![c] = EmptyMap]
  /\ sentenceTranslations' = [sentenceTranslations EXCEPT ![c] = Null]

WantsSentenceFetchAlways(c) ==
  /\ Len(SplitSentences(text[c])) > 0
  /\ apiKey

\* Lines 382-443 up to the next await: the sentence fetch when sentences
\* are requested, there is a sentence and the key is set, else the upsert.
WantsSentenceFetch(c) ==
  /\ include_sentences[c]
  /\ Len(SplitSentences(text[c])) > 0
  /\ apiKey

AfterDefinitionsRespondsFirst(c, ps, defs, evs) ==
  /\ phrases' = [phrases EXCEPT ![c] = ps]
  /\ definitions' = [definitions EXCEPT ![c] = defs]
  /\ sentenceTranslations' = [sentenceTranslations EXCEPT ![c] = Null]
  /\ pc' = [pc EXCEPT ![c] = "done"]
  /\ events' = [events EXCEPT ![c] = events[c] \o evs \o <<"respond">>]
  /\ response' = [response EXCEPT ![c] = OkResponse(Bundle(ps, defs, Null))]

\* Lines 301-443 between two awaits: what the definition stage leaves, and
\* the await that follows it.
AfterDefinitions(c, ps, defs, evs) ==
  /\ phrases' = [phrases EXCEPT ![c] = ps]
  /\ definitions' = [definitions EXCEPT ![c] = defs]
  /\ sentenceTranslations' = [sentenceTranslations EXCEPT ![c] = Null]
  /\ IF WantsSentenceFetch(c)
     THEN /\ pc' = [pc EXCEPT ![c] = "sentFetch"]
          /\ events' = [events EXCEPT ![c] = events[c] \o evs \o <<"sentLLM">>]
     ELSE /\ pc' = [pc EXCEPT ![c] = "upsert"]
          /\ events' = [events EXCEPT ![c] = events[c] \o evs \o <<"upsert">>]
  /\ UNCHANGED response

InvalidBodyTextOnly(body) == body.text = EmptyText

\* Line 250: !text || !text_hash.
InvalidBody(body) == body.text = EmptyText \/ body.text_hash = EmptyHash

\* Lines 246-262: validation, then the select is issued.  Requests are
\* numbered in the order they arrive.
Receive(c) ==
  /\ pc[c] = "idle"
  /\ \A d \in Calls : d < c => pc[d] # "idle"
  /\ \E body \in Requests :
       /\ text' = [text EXCEPT ![c] = body.text]
       /\ text_hash' = [text_hash EXCEPT ![c] = body.text_hash]
       /\ include_sentences' = [include_sentences EXCEPT ![c] = body.include_sentences]
       /\ pred' = [pred EXCEPT ![c] = {d \in Calls : pc[d] = "done"}]
       /\ IF InvalidBody(body)
          THEN Finish(c, ErrorResponse(400), << >>)
          ELSE /\ pc' = [pc EXCEPT ![c] = "lookup"]
               /\ events' = [events EXCEPT ![c] = <<"select">>]
               /\ UNCHANGED <<cachedAnalysis, phrases, definitions,
                              sentenceTranslations, response>>
  /\ UNCHANGED <<store, storeErrors, apiKey>>
  /\ UNCHANGED <<lookupVars, listenVars, pureVars, pageVars, fileVars>>

AnswersFromCacheOnlyIfComplete(data, include) ==
  /\ ~IsNull(data)
  /\ ~IsNull(data[1].sentence_translations)

\* Lines 265-278: a row is returned as it is, unless sentences are asked
\* for and the row has none.
AnswersFromCache(data, include) ==
  /\ ~IsNull(data)
  /\ ~(include /\ IsNull(data[1].sentence_translations))

\* Lines 258-331: the select resolves; a hit that has what was asked for is
\* answered from the row, anything else segments the text, looks the
\* phrases up and issues the definition fetch.  The select returns the row
\* only when the store answers and a row exists.
CacheLookup(c) ==
  /\ pc[c] = "lookup"
  /\ \E cacheError \in {FALSE} \cup {e \in {TRUE} : storeErrors < MaxStoreErrors} :
       LET data == IF ~cacheError /\ text_hash[c] \in DOMAIN store
                   THEN Just(store[text_hash[c]]) ELSE Null
           seen == IF cacheError THEN <<"selectError">>
                   ELSE IF IsNull(data) THEN <<"miss">> ELSE <<"hit">>
           ps == SegmentText(text[c])
           phrasesNotFound == CollectNotFound(ps)
       IN /\ storeErrors' = storeErrors + (IF cacheError THEN 1 ELSE 0)
          /\ IF AnswersFromCache(data, include_sentences[c])
             THEN Finish(c, OkResponse(Bundle(data[1].segmented_phrases,
                                              data[1].phrase_definitions,
                                              data[1].sentence_translations)), seen)
             ELSE /\ cachedAnalysis' = [cachedAnalysis EXCEPT ![c] = data]
                  /\ IF Len(phrasesNotFound) > 0 /\ apiKey
                     THEN /\ pc' = [pc EXCEPT ![c] = "defFetch"]
                          /\ phrases' = [phrases EXCEPT ![c] = ps]
                          /\ events' = [events EXCEPT
                                          ![c] = events[c] \o seen \o <<"segment", "defLLM">>]
                          /\ UNCHANGED <<definitions, sentenceTranslations, response>>
                     ELSE AfterDefinitions(c, ps, EmptyMap, seen \o <<"segment">>)
  /\ UNCHANGED <<store, apiKey, text, text_hash, include_sentences, pred>>
  /\ UNCHANGED <<lookupVars, listenVars, pureVars, pageVars, fileVars>>

\* Lines 333-380: the definition fetch resolves.
DefinitionsReply(c) ==
  /\ pc[c] = "defFetch"
  /\ LET phrasesNotFound == CollectNotFound(phrases[c])
     IN \/ \* fetch rejects, or the reply body is not the expected JSON
           Finish(c, ErrorResponse(500), << >>)
        \/ \* !claudeResponse.ok
           /\ AfterDefinitions(c, phrases[c], EmptyMap, << >>)
           /\ UNCHANGED cachedAnalysis
        \/ \E lines \in LLMReplies(Len(phrasesNotFound)) :
             /\ AfterDefinitions(c, phrases[c],
                                 ParseDefinitions(EmptyMap, phrasesNotFound, lines, 1), << >>)
             /\ UNCHANGED cachedAnalysis
  /\ UNCHANGED <<store, storeErrors, apiKey, text, text_hash, include_sentences, pred>>
  /\ UNCHANGED <<lookupVars, listenVars, pureVars, pageVars, fileVars>>

\* Lines 396-454: the sentence fetch resolves, the upsert is issued.
SentencesReply(c) ==
  /\ pc[c] = "sentFetch"
  /\ LET sentences == SplitSentences(text[c])
     IN \/ Finish(c, ErrorResponse(500), << >>)
        \/ /\ sentenceTranslations' = [sentenceTranslations EXCEPT ![c] = Null]
           /\ pc' = [pc EXCEPT ![c] = "upsert"]
           /\ events' = [events EXCEPT ![c] = events[c] \o <<"upsert">>]
           /\ UNCHANGED <<cachedAnalysis, phrases, definitions, response>>
        \/ \E lines \in LLMReplies(Len(sentences)) :
             /\ sentenceTranslations' =
                  [sentenceTranslations EXCEPT
                     ![c] = Just(ParseTranslations(EmptyMap, sentences, lines, 1))]
             /\ pc' = [pc EXCEPT ![c] = "upsert"]
             /\ events' = [events EXCEPT ![c] = events[c] \o <<"upsert">>]
             /\ UNCHANGED <<cachedAnalysis, phrases, definitions, response>>
  /\ UNCHANGED <<store, storeErrors, apiKey, text, text_hash, include_sentences, pred>>
  /\ UNCHANGED <<lookupVars, listenVars, pureVars, pageVars, fileVars>>

UpsertResponseAlwaysFailing(upsertError, bundle) == ErrorResponse(500)

UpsertResponseFailing(upsertError, bundle) ==
  IF upsertError THEN ErrorResponse(500) ELSE OkResponse(bundle)

\* Lines 456-466: an upsert error is logged; the response is sent either way.
UpsertResponse(upsertError, bundle) == OkResponse(bundle)

\* Lines 445-466: the upsert resolves and the bundle is sent, whether or
\* not the row was written.
Upsert(c) ==
  /\ pc[c] = "upsert"
  /\ \E upsertError \in {FALSE} \cup {e \in {TRUE} : storeErrors < MaxStoreErrors} :
       /\ storeErrors' = storeErrors + (IF upsertError THEN 1 ELSE 0)
       /\ store' = IF upsertError THEN store
                   ELSE MapPut(store, text_hash[c],
                               Row(phrases[c], definitions[c], sentenceTranslations[c]))
       /\ Finish(c, UpsertResponse(upsertError,
                                    Bundle(phrases[c], definitions[c], sentenceTranslations[c])),
                 IF upsertError THEN <<"upsertError">> ELSE <<"stored">>)
  /\ UNCHANGED <<apiKey, text, text_hash, include_sentences, pred>>
  /\ UNCHANGED <<lookupVars, listenVars, pureVars, pageVars, fileVars>>

Next ==
  \/ \E c \in Calls : Receive(c)
  \/ \E c \in Calls : CacheLookup(c)
  \/ \E c \in Calls : DefinitionsReply(c)
  \/ \E c \in Calls : SentencesReply(c)
  \/ \E c \in Calls : Upsert(c)

Spec == Init /\ [][Next]_vars

----------------------------------------------------------------------------
\* POST /api/lookup-definitions

Sentinel == "No definition found"
NoAudioHash == ""

\* Phrases of the requests: two characters CC-CEDICT has no entry for, and
\* a word it has.
PhraseA == <<"zh1">>
PhraseB == <<"zh2">>
WordAB == <<"zh1", "zh2">>

\* CC-CEDICT, each word with the first entry of its first pinyin.
Cedict == [p \in {WordAB} |-> [pinyin |-> "py", english |-> <<"e1", "e2">>]]

getBySimplified(phrase) ==
  IF phrase \in DOMAIN Cedict THEN Just(Cedict[phrase]) ELSE Null

LookupBody(ps, h) == [phrases |-> ps, audio_hash |-> h]

\* Request bodies: phrases is missing in the last one.
LookupRequests ==
  {LookupBody(Just(<<PhraseA>>), "a1"), LookupBody(Just(<<PhraseB>>), "a1"),
   LookupBody(Just(<<PhraseA, PhraseB>>), "a1"), LookupBody(Just(<<WordAB>>), "a1"),
   LookupBody(Just(<<WordAB, PhraseA>>), NoAudioHash), LookupBody(Null, "a1")}

\* Lines 622-627.
DictionaryDefinition(entry) ==
  [pinyin |-> entry.pinyin,
   definitions |-> IF entry.english = << >> THEN Sentinel ELSE entry.english[1]]

\* Lines 605-635: the definitions the dictionary gives.
RECURSIVE LookupDictionary(_, _)
LookupDictionary(defs, ps) ==
  IF ps = << >> THEN defs
  ELSE LET entries == getBySimplified(Head(ps))
       IN LookupDictionary(IF IsNull(entries) THEN defs
                           ELSE MapPut(defs, Head(ps), DictionaryDefinition(entries[1])),
                           Tail(ps))

\* Lines 606-635: phrasesNotFound.
RECURSIVE NotInDictionary(_)
NotInDictionary(ps) ==
  IF ps = << >> THEN << >>
  ELSE (IF IsNull(getBySimplified(Head(ps))) THEN <<Head(ps)>> ELSE << >>)
         \o NotInDictionary(Tail(ps))

\* Lines 658-665: the cached translations of the phrases not found.
RECURSIVE ApplyCached(_, _, _)
ApplyCached(defs, cached, notFound) ==
  IF notFound = << >> THEN defs
  ELSE LET phrase == Head(notFound)
       IN ApplyCached(IF phrase \in DOMAIN cached /\ cached[phrase] # ""
                      THEN MapPut(defs, phrase, [pinyin |-> "", definitions |-> cached[phrase]])
                      ELSE defs,
                      cached, Tail(notFound))

FallbackNothing(defs, notFound) == defs

\* Lines 771-776, 781-786, 790-795: the sentinel for every phrase not found.
RECURSIVE Fallback(_, _)
Fallback(defs, notFound) ==
  IF notFound = << >> THEN defs
  ELSE Fallback(MapPut(defs, Head(notFound), [pinyin |-> "", definitions |-> Sentinel]),
                Tail(notFound))

\* Lines 716-745: a phrase whose numbered line is in the reply gets the
\* line's text, which also goes to translationsForCache; any other phrase
\* gets the sentinel.
RECURSIVE ParseLookup(_, _, _, _)
ParseLookup(acc, notFound, lines, idx) ==
  IF idx > Len(notFound) THEN acc
  ELSE LET phrase == notFound[idx]
           definitionLine == FindLine(lines, idx)
           next ==
             IF IsNull(definitionLine)
             THEN [acc EXCEPT !.definitions =
                     MapPut(@, phrase, [pinyin |-> "", definitions |-> Sentinel])]
             ELSE [definitions |->
                     MapPut(acc.definitions, phrase,
                            [pinyin |-> "", definitions |-> definitionLine[1].body]),
                   translationsForCache |->
                     MapPut(acc.translationsForCache, phrase, definitionLine[1].body)]
       IN ParseLookup(next, notFound, lines, idx + 1)

\* Line 800.
LookupOk(defs) == [status |-> 200, definitions |-> defs]

LookupRespond(c, r, evs) ==
  /\ lookupPc' = [lookupPc EXCEPT ![c] = "done"]
  /\ lookupResponse' = [lookupResponse EXCEPT ![c] = r]
  /\ lookupEvents' = [lookupEvents EXCEPT ![c] = lookupEvents[c] \o evs \o <<"respond">>]
  /\ lookupDefinitions' = [lookupDefinitions EXCEPT ![c] = EmptyMap]
  /\ translationsForCache' = [translationsForCache EXCEPT ![c] = EmptyMap]

\* Lines 673-796 up to the fetch: with a key the LLM is asked, without one
\* the phrases still not found get the sentinel.
AskLLM(c, defs, stillNotFound, evs) ==
  IF apiKey
  THEN /\ lookupPc' = [lookupPc EXCEPT ![c] = "fetch"]
       /\ lookupDefinitions' = [lookupDefinitions EXCEPT ![c] = defs]
       /\ lookupEvents' = [lookupEvents EXCEPT ![c] = lookupEvents[c] \o evs \o <<"llm">>]
       /\ UNCHANGED <<translationsForCache, lookupResponse>>
  ELSE LookupRespond(c, LookupOk(Fallback(defs, stillNotFound)), evs \o <<"noKey">>)

\* Lines 594-651: validation and the dictionary loop; the select is issued
\* when a phrase was not found and audio_hash is given.
LookupReceive(c) ==
  /\ lookupPc[c] = "idle"
  /\ \A d \in Calls : d < c => lookupPc[d] # "idle"
  /\ \E body \in LookupRequests :
       /\ lookupBody' = [lookupBody EXCEPT ![c] = body]
       /\ IF IsNull(body.phrases)
          THEN LookupRespond(c, ErrorResponse(400), << >>)
          ELSE LET defs == LookupDictionary(EmptyMap, body.phrases[1])
                   phrasesNotFound == NotInDictionary(body.phrases[1])
               IN IF Len(phrasesNotFound) = 0
                  THEN LookupRespond(c, LookupOk(defs), << >>)
                  ELSE IF body.audio_hash # NoAudioHash
                       THEN /\ lookupPc' = [lookupPc EXCEPT ![c] = "cacheRead"]
                            /\ lookupDefinitions' = [lookupDefinitions EXCEPT ![c] = defs]
                            /\ lookupEvents' = [lookupEvents EXCEPT ![c] = <<"select">>]
                            /\ UNCHANGED <<translationsForCache, lookupResponse>>
                       ELSE AskLLM(c, defs, phrasesNotFound, << >>)
  /\ UNCHANGED <<translations, storeErrors, apiKey, analyzeVars, listenVars, pureVars, pageVars, fileVars>>

\* Lines 647-681: the select resolves.  With a record the phrases it holds
\* are taken from it and nothing more is looked up; without one (or on an
\* error) the LLM is asked.
LookupCacheRead(c) ==
  /\ lookupPc[c] = "cacheRead"
  /\ \E cacheError \in {FALSE} \cup {e \in {TRUE} : storeErrors < MaxStoreErrors} :
       LET audio_hash == lookupBody[c].audio_hash
           cachedTranscript == IF ~cacheError /\ audio_hash \in DOMAIN translations
                               THEN Just([translations |-> translations[audio_hash]])
                               ELSE Null
           phrasesNotFound == NotInDictionary(lookupBody[c].phrases[1])
       IN /\ storeErrors' = storeErrors + (IF cacheError THEN 1 ELSE 0)
          /\ IF ~IsNull(cachedTranscript)
             THEN LookupRespond(c, LookupOk(ApplyCached(lookupDefinitions[c],
                                                         cachedTranscript[1].translations,
                                                         phrasesNotFound)),
                                <<"hit">>)
             ELSE AskLLM(c, lookupDefinitions[c], phrasesNotFound,
                         IF cacheError THEN <<"selectError">> ELSE <<"miss">>)
  /\ UNCHANGED <<translations, lookupBody, apiKey, analyzeVars, listenVars, pureVars, pageVars, fileVars>>

\* Lines 682-787: the fetch rejects, answers non-2xx, or answers with lines;
\* the upsert is issued when audio_hash is given and a line was parsed.
LookupLLMReply(c) ==
  /\ lookupPc[c] = "fetch"
  /\ LET stillNotFound == NotInDictionary(lookupBody[c].phrases[1])
     IN \/ LookupRespond(c, LookupOk(Fallback(lookupDefinitions[c], stillNotFound)),
                         <<"llmThrows">>)
        \/ LookupRespond(c, LookupOk(Fallback(lookupDefinitions[c], stillNotFound)),
                         <<"llmNotOk">>)
        \/ \E lines \in LLMReplies(Len(stillNotFound)) :
             LET parsed == ParseLookup([definitions |-> lookupDefinitions[c],
                                        translationsForCache |-> EmptyMap],
                                       stillNotFound, lines, 1)
             IN IF lookupBody[c].audio_hash # NoAudioHash
                   /\ parsed.translationsForCache # EmptyMap
                THEN /\ lookupPc' = [lookupPc EXCEPT ![c] = "cacheWrite"]
                     /\ lookupDefinitions' =
                          [lookupDefinitions EXCEPT ![c] = parsed.definitions]
                     /\ translationsForCache' =
                          [translationsForCache EXCEPT ![c] = parsed.translationsForCache]
                     /\ lookupEvents' =
                          [lookupEvents EXCEPT ![c] = lookupEvents[c] \o <<"llmOk", "upsert">>]
                     /\ UNCHANGED lookupResponse
                ELSE LookupRespond(c, LookupOk(parsed.definitions), <<"llmOk">>)
  /\ UNCHANGED <<translations, lookupBody, storeErrors, apiKey, analyzeVars, listenVars, pureVars, pageVars, fileVars>>

LookupCacheWriteIntoAnalysis(c) ==
  /\ lookupPc[c] = "cacheWrite"
  /\ store' = MapPut(store, lookupBody[c].audio_hash,
                     Row(<< >>, translationsForCache[c], Null))
  /\ LookupRespond(c, LookupOk(lookupDefinitions[c]), <<"stored">>)
  /\ UNCHANGED <<translations, lookupBody, storeErrors, apiKey, listenVars, pureVars,
                 pageVars, fileVars, pc, text, text_hash, include_sentences, cachedAnalysis, phrases,
                 definitions, sentenceTranslations, response, events, pred>>

\* Lines 752-800: the upsert resolves; it sets the record's translations to
\* translationsForCache.  An error is logged.
LookupCacheWrite(c) ==
  /\ lookupPc[c] = "cacheWrite"
  /\ \E upsertError \in {FALSE} \cup {e \in {TRUE} : storeErrors < MaxStoreErrors} :
       /\ storeErrors' = storeErrors + (IF upsertError THEN 1 ELSE 0)
       /\ translations' = IF upsertError THEN translations
                          ELSE MapPut(translations, lookupBody[c].audio_hash,
                                      translationsForCache[c])
       /\ LookupRespond(c, LookupOk(lookupDefinitions[c]),
                        IF upsertError THEN <<"upsertError">> ELSE <<"stored">>)
  /\ UNCHANGED <<lookupBody, apiKey, analyzeVars, listenVars, pureVars, pageVars, fileVars>>

NextLookup ==
  \/ \E c \in Calls : LookupReceive(c)
  \/ \E c \in Calls : LookupCacheRead(c)
  \/ \E c \in Calls : LookupLLMReply(c)
  \/ \E c \in Calls : LookupCacheWrite(c)

SpecLookup == Init /\ [][NextLookup]_vars

----------------------------------------------------------------------------
\* Listen.jsx handleGenerateTranscript, /api/check-transcript-cache and
\* /api/transcribe

\* Audio files, and the SHA-256 of each as lower-case hex (lines 213-216).
Files == {"f1", "f2"}
Sha256(file) == IF file = "f1" THEN "a1" ELSE "a2"

\* What the speech-to-text service can answer to an upload.
SttTranscripts ==
  {[text |-> "t1", language_code |-> "zh", language_probability |-> "0.99"],
   [text |-> "t2", language_code |-> "en", language_probability |-> "0.51"]}

\* server.js 1052-1059: the columns of the record the insert writes.
TranscriptRow(transcriptData) ==
  [transcript |-> transcriptData,
   language_code |-> transcriptData.language_code,
   language_probability |-> transcriptData.language_probability]

\* Listen.jsx 243-248 and 280-285: the transcript the component keeps.
ClientTranscript(data, hash, code, probability) ==
  [transcript |-> data, audio_hash |-> hash,
   language_code |-> code, language_probability |-> probability]

CheckAnswerFailingOnError(existingTranscript, fetchError) ==
  IF fetchError THEN ErrorResponse(500)
  ELSE IF ~IsNull(existingTranscript)
       THEN [status |-> 200, cached |-> TRUE,
             transcript |-> existingTranscript[1].transcript,
             language_code |-> existingTranscript[1].language_code,
             language_probability |-> existingTranscript[1].language_probability]
       ELSE [status |-> 200, cached |-> FALSE]

\* server.js 973-984: the record when the select returned one and no
\* error, cached: false otherwise.
CheckAnswer(existingTranscript, fetchError) ==
  IF ~IsNull(existingTranscript) /\ ~fetchError
  THEN [status |-> 200, cached |-> TRUE,
        transcript |-> existingTranscript[1].transcript,
        language_code |-> existingTranscript[1].language_code,
        language_probability |-> existingTranscript[1].language_probability]
  ELSE [status |-> 200, cached |-> FALSE]

\* A run ends: the finally block, with the state the run set.
FlowEnds(f, t, cached, err, evs) ==
  /\ flowPc' = [flowPc EXCEPT ![f] = "done"]
  /\ transcript' = [transcript EXCEPT ![f] = t]
  /\ isCached' = [isCached EXCEPT ![f] = cached]
  /\ transcriptError' = [transcriptError EXCEPT ![f] = err]
  /\ flowEvents' = [flowEvents EXCEPT ![f] = flowEvents[f] \o evs]

\* Listen.jsx 200-231: nothing without a file; else the hash is computed
\* and the cache check is requested.
GenerateTranscript(f) ==
  /\ flowPc[f] = "idle"
  /\ \A g \in Calls : g < f => flowPc[g] # "idle"
  /\ \E file \in {Null} \cup {Just(x) : x \in Files} :
       /\ audioFile' = [audioFile EXCEPT ![f] = file]
       /\ IF IsNull(file)
          THEN /\ flowPc' = [flowPc EXCEPT ![f] = "done"]
               /\ UNCHANGED <<fileHash, transcript, isCached, transcriptError, flowEvents>>
          ELSE /\ flowPc' = [flowPc EXCEPT ![f] = "check"]
               /\ fileHash' = [fileHash EXCEPT ![f] = Sha256(file[1])]
               /\ flowEvents' = [flowEvents EXCEPT ![f] = <<"hash", "check">>]
               /\ UNCHANGED <<transcript, isCached, transcriptError>>
  /\ UNCHANGED <<transcripts, elevenlabsApiKey, cacheResponse, storeErrors, apiKey,
                 analyzeVars, lookupVars, pureVars, pageVars>>

UsesCacheNever(ok, cached) == FALSE

\* Listen.jsx 235-238.
UsesCache(ok, cached) == ok /\ cached

\* server.js 955-989 and Listen.jsx 233-266: the handler's select returns
\* the record, none, or an error, and the handler answers; or the request
\* does not reach the handler and is answered non-2xx.  The run goes on
\* from the response: a cached transcript is kept, anything else sends the
\* upload.  Failures of the request and of the store count as faults of
\* the behaviour alike.
CheckTranscriptCache(f) ==
  /\ flowPc[f] = "check"
  /\ \E outcome \in {"data"} \cup {o \in {"error", "unavailable"} : storeErrors < MaxStoreErrors} :
       LET existingTranscript ==
             IF outcome = "data" /\ fileHash[f] \in DOMAIN transcripts
             THEN Just(transcripts[fileHash[f]]) ELSE Null
           answered == IF outcome = "unavailable" THEN ErrorResponse(502)
                       ELSE CheckAnswer(existingTranscript, outcome = "error")
           ok == answered.status = 200
           cached == ok /\ answered.cached
           seen == (IF outcome = "data" THEN << >> ELSE <<outcome>>)
                     \o <<IF ~ok THEN "checkFailed"
                          ELSE IF cached THEN "cachedTrue" ELSE "cachedFalse">>
       IN /\ storeErrors' = storeErrors + (IF outcome = "data" THEN 0 ELSE 1)
          /\ cacheResponse' = [cacheResponse EXCEPT ![f] = answered]
          /\ IF UsesCache(ok, cached)
             THEN FlowEnds(f, Just(ClientTranscript(answered.transcript, fileHash[f],
                                                    answered.language_code,
                                                    answered.language_probability)),
                           TRUE, Null, seen)
             ELSE /\ flowPc' = [flowPc EXCEPT ![f] = "upload"]
                  /\ flowEvents' = [flowEvents EXCEPT ![f] = flowEvents[f] \o seen \o <<"upload">>]
                  /\ UNCHANGED <<transcript, isCached, transcriptError>>
  /\ UNCHANGED <<transcripts, elevenlabsApiKey, audioFile, fileHash, apiKey,
                 analyzeVars, lookupVars, pureVars, pageVars>>

\* server.js 992-1035 and Listen.jsx 268-271, 287-289: the upload arrives;
\* without a file or without a file_hash the handler answers 400, without
\* a key 500, and the run ends with the error; else the speech-to-text
\* request is made.
TranscribeUpload(f, hasFile, hasHash) ==
  /\ flowPc[f] = "upload"
  /\ IF ~hasFile
     THEN FlowEnds(f, transcript[f], isCached[f],
                   Just("No audio file provided"), <<"failed">>)
     ELSE IF ~hasHash
     THEN FlowEnds(f, transcript[f], isCached[f],
                   Just("file_hash is required (calculate on client)"), <<"failed">>)
     ELSE IF ~elevenlabsApiKey
     THEN FlowEnds(f, transcript[f], isCached[f],
                   Just("ElevenLabs API key not configured"), <<"failed">>)
     ELSE /\ flowPc' = [flowPc EXCEPT ![f] = "stt"]
          /\ flowEvents' = [flowEvents EXCEPT ![f] = flowEvents[f] \o <<"stt">>]
          /\ UNCHANGED <<transcript, isCached, transcriptError>>
  /\ UNCHANGED <<transcripts, elevenlabsApiKey, audioFile, fileHash, cacheResponse,
                 storeErrors, apiKey, analyzeVars, lookupVars, pureVars, pageVars>>

\* Listen.jsx 256-260: the page sends the file and its hash.
Transcribe(f) == TranscribeUpload(f, TRUE, TRUE)

UniqueViolationNever(table, key) == FALSE

\* create_audio_transcripts_table.sql 4: file_hash is UNIQUE, an insert
\* under a hash that has a record is refused.
UniqueViolation(table, key) == key \in DOMAIN table

\* server.js 1037-1079 and Listen.jsx 268-289: the speech-to-text request
\* answers non-2xx or rejects, and the run ends with the error; or it
\* answers with a transcript, which is inserted (file_hash is unique: the
\* insert of a second record for a hash returns an error, as does a failing
\* store), and the run keeps the transcript whatever the insert returned.
SpeechToTextReply(f) ==
  /\ flowPc[f] = "stt"
  /\ \/ \E message \in {"Transcription failed", "request failed"} :
          /\ FlowEnds(f, transcript[f], isCached[f], Just(message), <<"failed">>)
          /\ UNCHANGED <<transcripts, storeErrors>>
     \/ \E transcriptData \in SttTranscripts :
          \E storeFails \in {FALSE} \cup {e \in {TRUE} : storeErrors < MaxStoreErrors} :
            LET insertError == storeFails \/ UniqueViolation(transcripts, fileHash[f])
            IN /\ storeErrors' = storeErrors + (IF storeFails THEN 1 ELSE 0)
               /\ transcripts' = IF insertError THEN transcripts
                                 ELSE MapPut(transcripts, fileHash[f],
                                             TranscriptRow(transcriptData))
               /\ FlowEnds(f, Just(ClientTranscript(transcriptData, fileHash[f],
                                                    transcriptData.language_code,
                                                    transcriptData.language_probability)),
                           FALSE, Null,
                           IF insertError THEN <<"insertError">> ELSE <<"inserted">>)
  /\ UNCHANGED <<elevenlabsApiKey, audioFile, fileHash, cacheResponse, apiKey,
                 analyzeVars, lookupVars, pureVars, pageVars>>

InitListenSpec ==
  /\ storeErrors = 0
  /\ apiKey = TRUE
  /\ elevenlabsApiKey \in BOOLEAN
  /\ InitAnalyze /\ InitLookup /\ InitListen /\ NoPage /\ NoInput

NextListen ==
  \/ \E f \in Calls : GenerateTranscript(f) /\ UNCHANGED fileVars
  \/ \E f \in Calls : CheckTranscriptCache(f) /\ UNCHANGED fileVars
  \/ \E f \in Calls : Transcribe(f) /\ UNCHANGED fileVars
  \/ \E f \in Calls : SpeechToTextReply(f) /\ UNCHANGED fileVars

SpecListen == InitListenSpec /\ [][NextListen]_vars

\* The two endpoints under uploads of any client: the file or the hash may
\* be missing from the form.
NextTranscribe ==
  \/ \E f \in Calls : GenerateTranscript(f) /\ UNCHANGED fileVars
  \/ \E f \in Calls : CheckTranscriptCache(f) /\ UNCHANGED fileVars
  \/ \E f \in Calls : \E hasFile \in BOOLEAN, hasHash \in BOOLEAN :
       TranscribeUpload(f, hasFile, hasHash) /\ UNCHANGED fileVars
  \/ \E f \in Calls : SpeechToTextReply(f) /\ UNCHANGED fileVars

SpecTranscribe == InitListenSpec /\ [][NextTranscribe]_vars

----------------------------------------------------------------------------
\* The three endpoints side by side: one request to each, in any
\* interleaving, over the three tables.

NextStores ==
  \/ Receive(1)
  \/ CacheLookup(1)
  \/ DefinitionsReply(1)
  \/ SentencesReply(1)
  \/ Upsert(1)
  \/ LookupReceive(1)
  \/ LookupCacheRead(1)
  \/ LookupLLMReply(1)
  \/ LookupCacheWrite(1)
  \/ GenerateTranscript(1) /\ UNCHANGED fileVars
  \/ CheckTranscriptCache(1) /\ UNCHANGED fileVars
  \/ Transcribe(1) /\ UNCHANGED fileVars
  \/ SpeechToTextReply(1) /\ UNCHANGED fileVars

SpecStores == Init /\ [][NextStores]_vars

----------------------------------------------------------------------------
\* Phrase offsets, for any text and any tokenizer output

\* Longest text segmented.
MaxTextLen == 3

Alphabet == Ideographs \cup {"stop"}

Texts == UNION {[1..n -> Alphabet] : n \in 1..MaxTextLen}

\* The ways of cutting a text into non-empty segments.
RECURSIVE Splits(_)
Splits(t) ==
  IF t = << >> THEN {<< >>}
  ELSE UNION {{<<SubSeq(t, 1, k)>> \o rest : rest \in Splits(SubSeq(t, k + 1, Len(t)))} :
              k \in 1..Len(t)}

\* server.js 221-235: segment-text adds up the lengths.
RECURSIVE BuildPhrasesByLength(_, _)
BuildPhrasesByLength(segments, currentIndex) ==
  IF segments = << >> THEN << >>
  ELSE LET segment == Head(segments)
           start == currentIndex
           end == currentIndex + Len(segment)
       IN <<[text |-> segment, start |-> start, end |-> end]>>
            \o BuildPhrasesByLength(Tail(segments), end)

InitSegment ==
  /\ storeErrors = 0
  /\ apiKey = TRUE
  /\ elevenlabsApiKey = TRUE
  /\ InitAnalyze /\ InitLookup /\ InitListen /\ NoPage
  /\ input \in {[text |-> t, segments |-> segs] : t \in Texts, segs \in UNION {Splits(u) : u \in Texts}}
  /\ input.segments \in Splits(input.text)
  /\ output = Null

\* server.js 284-299.
AnalyzeBuildsPhrases ==
  /\ IsNull(output)
  /\ output' = Just([by |-> "analyze-text",
                     phrases |-> BuildPhrases(input.text, input.segments, 0)])
  /\ UNCHANGED <<input, storeErrors, apiKey, analyzeVars, lookupVars, listenVars, pageVars, fileVars>>

\* server.js 218-237.
SegmentTextBuildsPhrases ==
  /\ IsNull(output)
  /\ output' = Just([by |-> "segment-text",
                     phrases |-> BuildPhrasesByLength(input.segments, 0)])
  /\ UNCHANGED <<input, storeErrors, apiKey, analyzeVars, lookupVars, listenVars, pageVars, fileVars>>

NextSegment ==
  \/ AnalyzeBuildsPhrases
  \/ SegmentTextBuildsPhrases

SpecSegment == InitSegment /\ [][NextSegment]_vars

----------------------------------------------------------------------------
\* Numbered replies, as text

\* Most lines in a reply.
MaxReplyLines == 3

Digits == {"0", "1", "2", "3"}

DigitValue(d) == CASE d = "0" -> 0 [] d = "1" -> 1 [] d = "2" -> 2 [] d = "3" -> 3

\* (\d+) at the start of a line.
RECURSIVE LeadingDigits(_)
LeadingDigits(line) ==
  IF line # << >> /\ Head(line) \in Digits
  THEN <<Head(line)>> \o LeadingDigits(Tail(line))
  ELSE << >>

\* parseInt of a run of digits.
RECURSIVE ParseInt(_)
ParseInt(ds) ==
  IF ds = << >> THEN 0
  ELSE 10 * ParseInt(SubSeq(ds, 1, Len(ds) - 1)) + DigitValue(ds[Len(ds)])

NoMatch == Line(-1, << >>)

\* line.match(/^(\d+)\.\s*(.+)/), parseInt(match[1]) and match[2].trim():
\* digits, a dot and at least one more character.  \s* gives back what
\* (.+) needs, so a rest of spaces matches and trims to the empty text.
MatchLine(line) ==
  LET ds == LeadingDigits(line)
      rest == SubSeq(line, Len(ds) + 2, Len(line))
  IN IF ds # << >> /\ Len(line) > Len(ds) /\ line[Len(ds) + 1] = "dot" /\ rest # << >>
     THEN Line(ParseInt(ds), Trim(rest))
     ELSE NoMatch

\* split('\n')
RECURSIVE SplitLines(_, _)
SplitLines(s, line) ==
  IF s = << >> THEN <<line>>
  ELSE IF Head(s) = "nl" THEN <<line>> \o SplitLines(Tail(s), << >>)
       ELSE SplitLines(Tail(s), Append(line, Head(s)))

\* filter(line => line.trim())
RECURSIVE FilterBlank(_)
FilterBlank(ls) ==
  IF ls = << >> THEN << >>
  ELSE IF Trim(Head(ls)) = << >> THEN FilterBlank(Tail(ls))
       ELSE <<Head(ls)>> \o FilterBlank(Tail(ls))

\* responseText.trim().split('\n').filter(line => line.trim())
ReplyLines(responseText) == FilterBlank(SplitLines(Trim(responseText), << >>))

MatchLines(ls) == [k \in 1..Len(ls) |-> MatchLine(ls[k])]

\* Lines an LLM may write: numbered with and without a space, with a
\* trailing space, with a leading zero, two digits, nothing or only a
\* space after the dot, indented, unnumbered, blank.
WrittenLines ==
  { <<"1", "dot", "x">>, <<"1", "dot", "sp", "y">>,
    <<"2", "dot", "sp", "x">>, <<"2", "dot", "y", "sp">>,
    <<"3", "dot", "sp", "x">>, <<"1", "2", "dot", "sp", "x">>,
    <<"0", "1", "dot", "sp", "z">>,
    <<"1", "dot">>, <<"2", "dot", "sp">>,
    <<"sp", "2", "dot", "z">>, <<"x">>, <<"sp">>, << >> }

RECURSIVE JoinLines(_)
JoinLines(ls) ==
  IF ls = << >> THEN << >>
  ELSE IF Len(ls) = 1 THEN Head(ls)
       ELSE Head(ls) \o <<"nl">> \o JoinLines(Tail(ls))

ResponseTexts ==
  {JoinLines(ls) : ls \in UNION {[1..n -> WrittenLines] : n \in 1..MaxReplyLines}}

\* The phrases sent for definition, numbered from 1.
Batches == {<<PhraseA>>, <<PhraseA, PhraseB>>}

InitParse ==
  /\ storeErrors = 0
  /\ apiKey = TRUE
  /\ elevenlabsApiKey = TRUE
  /\ InitAnalyze /\ InitLookup /\ InitListen /\ NoPage
  /\ input \in {[batch |-> b, responseText |-> r] : b \in Batches, r \in ResponseTexts}
  /\ output = Null

\* server.js 359-377.
AnalyzeParsesReply ==
  /\ IsNull(output)
  /\ output' = Just([by |-> "analyze-text",
                     definitions |->
                       ParseDefinitions(EmptyMap, input.batch,
                                        MatchLines(ReplyLines(input.responseText)), 1)])
  /\ UNCHANGED <<input, storeErrors, apiKey, analyzeVars, lookupVars, listenVars, pageVars, fileVars>>

\* server.js 712-745.
LookupParsesReply ==
  /\ IsNull(output)
  /\ output' = Just([by |-> "lookup-definitions"]
                    @@ ParseLookup([definitions |-> EmptyMap, translationsForCache |-> EmptyMap],
                                   input.batch,
                                   MatchLines(ReplyLines(input.responseText)), 1))
  /\ UNCHANGED <<input, storeErrors, apiKey, analyzeVars, lookupVars, listenVars, pageVars, fileVars>>

NextParse ==
  \/ AnalyzeParsesReply
  \/ LookupParsesReply

SpecParse == InitParse /\ [][NextParse]_vars

\* Batches in which a phrase text occurs at more than one position: the
\* pages send the text of every segment (ChineseSimplifier.jsx 317-319).
RepeatingBatches == {<<PhraseA, PhraseA>>, <<PhraseA, PhraseB, PhraseA>>}

InitParseRepeats ==
  /\ storeErrors = 0
  /\ apiKey = TRUE
  /\ elevenlabsApiKey = TRUE
  /\ InitAnalyze /\ InitLookup /\ InitListen /\ NoPage
  /\ input \in {[batch |-> b, responseText |-> r] : b \in RepeatingBatches, r \in ResponseTexts}
  /\ output = Null

SpecParseRepeats == InitParseRepeats /\ [][NextParse]_vars

----------------------------------------------------------------------------
\* Sentence splitting, for any text

SentenceAlphabet == Ideographs \cup Terminators \cup Whitespace

SentenceTexts == UNION {[1..n -> SentenceAlphabet] : n \in 1..MaxTextLen}

InitSentences ==
  /\ storeErrors = 0
  /\ apiKey = TRUE
  /\ elevenlabsApiKey = TRUE
  /\ InitAnalyze /\ InitLookup /\ InitListen /\ NoPage
  /\ input \in SentenceTexts
  /\ output = [server |-> Null, client |-> Null]

\* server.js 386-387.
ServerSplits ==
  /\ IsNull(output.server)
  /\ output' = [output EXCEPT !.server = Just(SplitSentences(input))]
  /\ UNCHANGED <<input, storeErrors, apiKey, analyzeVars, lookupVars, listenVars, pageVars, fileVars>>

\* Reader.jsx 715-719.
ClientSplits ==
  /\ IsNull(output.client)
  /\ output' = [output EXCEPT !.client = Just(splitIntoSentences(input))]
  /\ UNCHANGED <<input, storeErrors, apiKey, analyzeVars, lookupVars, listenVars, pageVars, fileVars>>

NextSentences ==
  \/ ServerSplits
  \/ ClientSplits

SpecSentences == InitSentences /\ [][NextSentences]_vars

----------------------------------------------------------------------------
\* usePhraseSegmentation and the pages that use it

\* Characters of the test in Listen.jsx 311: the full-width terminators.
FullWidthTerminators == {"stop"}

\* Listen.jsx 310-312.
hasSentenceTranslations(pt) ==
  \E key \in DOMAIN pt :
    Len(key) > 10 /\ \E i \in 1..Len(key) : key[i] \in FullWidthTerminators

\* What the server may answer analyze requests with: a non-2xx status, a
\* bundle whose sentence_translations is null, a bundle with them.
ServerGives == {"fails", "noSentences", "sentences"}

\* The bundle of a text: its phrases, a definition for each phrase with an
\* ideograph, and a translation for each sentence or null.
BundleOf(t, withSentences) ==
  LET ps == SegmentText(t)
      found == CollectNotFound(ps)
      sentences == SplitSentences(t)
  IN Bundle(ps,
            [k \in {found[i] : i \in 1..Len(found)} |-> [pinyin |-> "", definitions |-> "g1"]],
            IF withSentences
            THEN Just([k \in {sentences[i] : i \in 1..Len(sentences)} |-> "tr"])
            ELSE Null)

\* The bundles of the texts of the pages.
Bundles == [t \in PageTexts |-> [withSentences \in BOOLEAN |-> BundleOf(t, withSentences)]]

\* Reader.jsx 769-780: definitions by phrase, then Object.assign of the
\* sentence translations.
Translations(bundle) ==
  LET defs == bundle.definitions
      st == IF IsNull(bundle.sentence_translations) THEN EmptyMap
            ELSE bundle.sentence_translations[1]
  IN [k \in DOMAIN defs \cup DOMAIN st |->
        IF k \in DOMAIN st THEN st[k] ELSE defs[k].definitions]

\* The number of requests r sent and not yet answered.
InFlightCount(r) == IF r \in DOMAIN inFlight THEN inFlight[r] ELSE 0

\* Reader.jsx 721-754: segmentAndTranslate up to the fetch.
SendAnalyze(t, include) ==
  /\ isLoading' = TRUE
  /\ lastText' = Just(t)
  /\ LET r == [text |-> t, include_sentences |-> include]
     IN inFlight' = MapPut(inFlight, r, InFlightCount(r) + 1)
  /\ UNCHANGED <<shownPhrases, phraseTranslations>>

\* Reader.jsx 800-804.
reset ==
  /\ shownPhrases' = << >>
  /\ phraseTranslations' = EmptyMap
  /\ isLoading' = FALSE
  /\ UNCHANGED <<inFlight, lastText>>

\* Reader.jsx 756-789: the fetch of a request settles.  A non-2xx status
\* throws into the catch, which only logs; a bundle replaces phrases and
\* phraseTranslations, by a new object each time, so an effect that
\* depends on phraseTranslations runs again.
AnalyzeReplyArrives(r) ==
  /\ InFlightCount(r) > 0
  /\ inFlight' = IF inFlight[r] > 1 THEN [inFlight EXCEPT ![r] = @ - 1]
                 ELSE IF DOMAIN inFlight = {r} THEN EmptyMap
                 ELSE [x \in DOMAIN inFlight \ {r} |-> inFlight[x]]
  /\ isLoading' = FALSE
  /\ IF serverGives = "fails"
     THEN UNCHANGED <<shownPhrases, phraseTranslations, sentenceEffect>>
     ELSE \E withSentences \in {b \in BOOLEAN :
                                  /\ b => serverGives = "sentences"
                                  /\ (r.include_sentences /\ serverGives = "sentences") => b} :
            /\ shownPhrases' = Bundles[r.text][withSentences].phrases
            /\ phraseTranslations' = Translations(Bundles[r.text][withSentences])
            /\ sentenceEffect' = TRUE
  /\ UNCHANGED <<lastText, displayMode, loadedText, transcriptEffect, serverGives>>
  /\ UNCHANGED <<storeErrors, apiKey, analyzeVars, lookupVars, listenVars, pureVars,
                 fileVars>>

\* The Listen page with a transcript loaded: both effects have to run.
InitListenPage ==
  /\ storeErrors = 0
  /\ apiKey = TRUE
  /\ elevenlabsApiKey = TRUE
  /\ InitAnalyze /\ InitLookup /\ InitListen /\ NoInput
  /\ InitHook /\ NoFile
  /\ displayMode \in {"translation", "tooltips"}
  /\ loadedText \in {Just(t) : t \in PageTexts}
  /\ transcriptEffect = TRUE
  /\ sentenceEffect = TRUE
  /\ serverGives \in ServerGives

\* Listen.jsx 296-304.
TranscriptEffect ==
  /\ transcriptEffect
  /\ transcriptEffect' = FALSE
  /\ IF ~IsNull(loadedText) THEN SendAnalyze(loadedText[1], FALSE) ELSE reset
  /\ UNCHANGED <<displayMode, loadedText, sentenceEffect, serverGives>>
  /\ UNCHANGED <<storeErrors, apiKey, analyzeVars, lookupVars, listenVars, pureVars,
                 fileVars>>

\* Listen.jsx 307-319; effects run in the order they are declared.
SentenceEffect ==
  /\ sentenceEffect /\ ~transcriptEffect
  /\ sentenceEffect' = FALSE
  /\ IF /\ displayMode = "translation" /\ ~IsNull(loadedText)
        /\ ~hasSentenceTranslations(phraseTranslations)
     THEN SendAnalyze(loadedText[1], TRUE)
     ELSE UNCHANGED <<shownPhrases, phraseTranslations, isLoading, inFlight, lastText>>
  /\ UNCHANGED <<displayMode, loadedText, transcriptEffect, serverGives>>
  /\ UNCHANGED <<storeErrors, apiKey, analyzeVars, lookupVars, listenVars, pureVars,
                 fileVars>>

NextListenPage ==
  \/ TranscriptEffect
  \/ SentenceEffect
  \/ \E r \in AnalyzeRequests : AnalyzeReplyArrives(r)

\* React runs a scheduled effect, and a fetch settles.
SpecListenPage ==
  /\ InitListenPage /\ [][NextListenPage]_vars
  /\ WF_vars(TranscriptEffect)
  /\ WF_vars(SentenceEffect)
  /\ WF_vars(\E r \in AnalyzeRequests : AnalyzeReplyArrives(r))

\* Most analyze requests of the Reader page in flight at a time.
MaxInFlight == 2

RECURSIVE Sum(_, _)
Sum(f, S) == IF S = {} THEN 0 ELSE LET x == CHOOSE y \in S : TRUE IN f[x] + Sum(f, S \ {x})

\* The Reader page, nothing typed; its server answers with bundles.
InitReaderPage ==
  /\ storeErrors = 0
  /\ apiKey = TRUE
  /\ elevenlabsApiKey = TRUE
  /\ InitAnalyze /\ InitLookup /\ InitListen /\ NoInput
  /\ InitHook /\ NoFile
  /\ displayMode = "tooltips"
  /\ loadedText = Null
  /\ transcriptEffect = FALSE
  /\ sentenceEffect = FALSE
  /\ serverGives \in {"noSentences", "sentences"}

\* Reader.jsx 28-37: processText, called when the debounce timer fires
\* (20-22) or right after a paste (45-47), with a text that is not blank.
processText(t) ==
  /\ Sum(inFlight, DOMAIN inFlight) < MaxInFlight
  /\ SendAnalyze(t, FALSE)
  /\ UNCHANGED <<displayMode, loadedText, transcriptEffect, sentenceEffect, serverGives>>
  /\ UNCHANGED <<storeErrors, apiKey, analyzeVars, lookupVars, listenVars, pureVars,
                 fileVars>>

\* Reader.jsx 51-55: handleClear; the page shows no text any more.
handleClearReader ==
  /\ shownPhrases' = << >>
  /\ phraseTranslations' = EmptyMap
  /\ isLoading' = FALSE
  /\ lastText' = Null
  /\ UNCHANGED <<inFlight, displayMode, loadedText, transcriptEffect, sentenceEffect,
                 serverGives>>
  /\ UNCHANGED <<storeErrors, apiKey, analyzeVars, lookupVars, listenVars, pureVars,
                 fileVars>>

NextReaderPage ==
  \/ \E t \in PageTexts : processText(t)
  \/ handleClearReader
  \/ \E r \in AnalyzeRequests : AnalyzeReplyArrives(r)

SpecReaderPage == InitReaderPage /\ [][NextReaderPage]_vars

----------------------------------------------------------------------------
\* The Listen page: the selected file, the transcript shown, and the runs
\* of handleGenerateTranscript

InitListenFile ==
  /\ storeErrors = 0
  /\ apiKey = TRUE
  /\ elevenlabsApiKey = TRUE
  /\ InitAnalyze /\ InitLookup /\ InitListen /\ NoPage /\ NoInput

\* Listen.jsx 120-148, 381-401: a file is chosen in the drop zone, which
\* is rendered while no file is selected; the transcript is reset.
handleFileSelect(file) ==
  /\ IsNull(selectedFile)
  /\ selectedFile' = Just(file)
  /\ shownTranscript' = Null
  /\ UNCHANGED <<storeErrors, apiKey, analyzeVars, lookupVars, listenVars, pureVars,
                 pageVars>>

\* Listen.jsx 166-184, 414: the Remove button, rendered while a file is
\* selected, also during a run.
handleClear ==
  /\ ~IsNull(selectedFile)
  /\ selectedFile' = Null
  /\ shownTranscript' = Null
  /\ UNCHANGED <<storeErrors, apiKey, analyzeVars, lookupVars, listenVars, pureVars,
                 pageVars>>

\* isTranscribing: a run has started and has not reached its finally.
isTranscribing == \E g \in Calls : flowPc[g] \notin {"idle", "done"}

\* Listen.jsx 200-231, 461-462: the button is disabled while a run is on;
\* the run works on the audioFile of the render it was started from.
StartRun(f) ==
  /\ ~isTranscribing
  /\ GenerateTranscript(f)
  /\ audioFile'[f] = selectedFile
  /\ UNCHANGED fileVars

\* Listen.jsx 233-292: a run goes on after an await; when it calls
\* setTranscript, the page shows that transcript.
RunGoesOn(f) ==
  /\ \/ CheckTranscriptCache(f)
     \/ Transcribe(f)
     \/ SpeechToTextReply(f)
  /\ selectedFile' = selectedFile
  /\ shownTranscript' = IF transcript'[f] # transcript[f] THEN transcript'[f]
                        ELSE shownTranscript

NextListenFile ==
  \/ \E file \in Files : handleFileSelect(file)
  \/ handleClear
  \/ \E f \in Calls : StartRun(f)
  \/ \E f \in Calls : RunGoesOn(f)

SpecListenFile == InitListenFile /\ [][NextListenFile]_vars

----------------------------------------------------------------------------
\* Vocabulary of the properties

Done(c) == pc[c] = "done"
Has(c, e) == \E i \in 1..Len(events[c]) : events[c][i] = e
Answered(c) == Done(c) /\ response[c].status = 200

\* The request made no call to the tokenizer or to the LLM.
NoExternalCall(c) == ~Has(c, "segment") /\ ~Has(c, "defLLM") /\ ~Has(c, "sentLLM")

\* c2 arrived after c1 was answered, and no other request for the same hash
\* was in progress between the arrival of c1 and the answer to c2.
InSequence(c1, c2) ==
  /\ c1 \in pred[c2]
  /\ \A c3 \in Calls \ {c1, c2} :
       (pc[c3] # "idle" /\ text_hash[c3] = text_hash[c1])
         => (c3 \in pred[c1] \/ c2 \in pred[c3])

\* Two valid requests with the same body.
SameRequest(c1, c2, include) ==
  /\ text[c1] # EmptyText /\ text_hash[c1] # EmptyHash
  /\ text[c2] = text[c1] /\ text_hash[c2] = text_hash[c1]
  /\ include_sentences[c1] = include /\ include_sentences[c2] = include

\* The request is answered in this step.
Finishes(c) == pc[c] # "done" /\ pc'[c] = "done"

RowAsBundle(row) ==
  Bundle(row.segmented_phrases, row.phrase_definitions, row.sentence_translations)

----------------------------------------------------------------------------
\* Cache idempotence

\* C1: two requests analyze(text, h, false) made in sequence, with no other
\* request for h in between, the first answered with a bundle whose upsert
\* (when it made one) did not fail, and the store answering the second
\* request's select: both are answered with the same bundle, and the second
\* made no call to the tokenizer and none to the LLM.
C1_CacheIdempotence ==
  \A c1, c2 \in Calls :
    ( /\ InSequence(c1, c2)
      /\ SameRequest(c1, c2, FALSE)
      /\ Answered(c1) /\ ~Has(c1, "upsertError")
      /\ Done(c2) /\ ~Has(c2, "selectError") )
    => (response[c2] = response[c1] /\ NoExternalCall(c2))

\* The first request computed definitions and stored them, the second was
\* answered after it.
C1_Witness ==
  \E c1, c2 \in Calls :
    /\ InSequence(c1, c2)
    /\ SameRequest(c1, c2, FALSE)
    /\ Answered(c1) /\ Has(c1, "stored")
    /\ response[c1].body.definitions # EmptyMap
    /\ Done(c2) /\ ~Has(c2, "selectError")

\* C2 as claimed: two requests analyze(text, h, true) made in sequence are
\* answered with the same bundle and the second makes no external call,
\* whatever the LLM answered to the first (the store failing neither the
\* first request's upsert nor the second request's select).
C2_WarmAfterSentences ==
  \A c1, c2 \in Calls :
    ( /\ InSequence(c1, c2)
      /\ SameRequest(c1, c2, TRUE)
      /\ Answered(c1) /\ ~Has(c1, "upsertError")
      /\ Done(c2) /\ ~Has(c2, "selectError") )
    => (response[c2] = response[c1] /\ NoExternalCall(c2))

----------------------------------------------------------------------------
\* The life of a row: absent, partial (no sentence translations), complete

Complete(row) == ~IsNull(row.sentence_translations)

\* The request whose answer this step sends had its own select failed by
\* the store, and so could not know of the row.
BlindWriter(h) ==
  \E c \in Calls : Finishes(c) /\ text_hash[c] = h /\ Has(c, "selectError")

\* C3 as claimed: a row that holds sentence translations holds sentence
\* translations after every step, in every interleaving of the requests for
\* its hash.
C3_MonotonicSentences ==
  [][\A h \in DOMAIN store :
       Complete(store[h]) => (Complete(store'[h]) \/ BlindWriter(h))]_vars

\* C4 as claimed: a complete row is never written again, and a request
\* whose select finds it is answered with it, whatever include_sentences is.
C4_CompleteIsTerminal ==
  [][\A h \in DOMAIN store :
       Complete(store[h]) =>
         /\ store'[h] = store[h] \/ BlindWriter(h)
         /\ \A c \in Calls :
              (pc[c] = "lookup" /\ pc'[c] # "lookup" /\ text_hash[c] = h
                 /\ ~Has(c, "selectError")')
              => (pc'[c] = "done" /\ response'[c] = OkResponse(RowAsBundle(store[h])))]_vars

\* The request found a partial row of its own text when sentences were
\* asked for (the only case in which the handler keeps the row it read and
\* goes on).
OnPartialRow(c) ==
  /\ ~IsNull(cachedAnalysis[c])
  /\ cachedAnalysis[c][1].segmented_phrases = SegmentText(text[c])

\* C5 as claimed: a request with include_sentences that found a partial row
\* and stored its result leaves the row's phrases and
\* definitions as it found them, and answers with them.
C5_PartialHitPreserves ==
  [][\A c \in Calls :
       (Finishes(c) /\ OnPartialRow(c) /\ Has(c, "stored")')
       => LET cached == cachedAnalysis[c][1]
              stored == store'[text_hash[c]]
          IN /\ response'[c].body.phrases = cached.segmented_phrases
             /\ response'[c].body.definitions = cached.phrase_definitions
             /\ stored.segmented_phrases = cached.segmented_phrases
             /\ stored.phrase_definitions = cached.phrase_definitions]_vars

\* C6 as claimed: a request with include_sentences that found a partial row
\* calls neither the tokenizer nor the LLM for definitions.
C6_PartialHitNoRecompute ==
  \A c \in Calls : OnPartialRow(c) => (~Has(c, "segment") /\ ~Has(c, "defLLM"))

\* C7 as claimed: a request with include_sentences that found a partial row
\* and stored its result is answered with sentence translations and leaves
\* the row complete.
C7_PartialBecomesComplete ==
  [][\A c \in Calls :
       (Finishes(c) /\ OnPartialRow(c) /\ Has(c, "stored")')
       => /\ ~IsNull(response'[c].body.sentence_translations)
          /\ Complete(store'[text_hash[c]])]_vars

\* What a request that found no row does, in order, when nothing fails: the
\* definition fetch is made when the key is set (every text has a phrase to
\* define), the sentence fetch when sentences are asked for as well.
MissPipeline(c) ==
  <<"select", "miss", "segment">>
    \o (IF apiKey THEN <<"defLLM">> ELSE << >>)
    \o (IF apiKey /\ include_sentences[c] THEN <<"sentLLM">> ELSE << >>)
    \o <<"upsert", "stored", "respond">>

\* C8 as claimed: a request whose select found no row (and whose upsert the
\* store did not fail) segments, resolves definitions, translates sentences
\* when asked to, writes one row and is answered with the bundle; the row
\* is the bundle, complete exactly when translations were computed.
C8_AbsentRunsPipeline ==
  [][\A c \in Calls :
       (Finishes(c) /\ Has(c, "miss")' /\ ~Has(c, "upsertError")')
       => /\ response'[c].status = 200
          /\ events'[c] = MissPipeline(c)
          /\ RowAsBundle(store'[text_hash[c]]) = response'[c].body]_vars

\* C9: a request without include_sentences whose select returns a partial
\* row is answered in that step with the row's phrases and definitions and
\* with sentence_translations null; it writes nothing and calls neither the
\* tokenizer nor the LLM.
C9_PartialWithoutSentences ==
  [][\A c \in Calls :
       ( /\ pc[c] = "lookup" /\ pc'[c] # "lookup"
         /\ ~include_sentences[c]
         /\ text_hash[c] \in DOMAIN store
         /\ ~Complete(store[text_hash[c]])
         /\ ~Has(c, "selectError")' )
       => LET row == store[text_hash[c]]
          IN /\ pc'[c] = "done"
             /\ response'[c] =
                  OkResponse(Bundle(row.segmented_phrases, row.phrase_definitions, Null))
             /\ store' = store
             /\ events'[c] = <<"select", "hit", "respond">>]_vars

\* A request without include_sentences was answered from a partial row that
\* carries definitions.
C9_Witness ==
  \E c \in Calls :
    /\ Answered(c) /\ ~include_sentences[c]
    /\ events[c] = <<"select", "hit", "respond">>
    /\ IsNull(response[c].body.sentence_translations)
    /\ response[c].body.definitions # EmptyMap

\* Neither request was answered before the other arrived.
Overlap(c1, c2) == c1 # c2 /\ c1 \notin pred[c2] /\ c2 \notin pred[c1]

\* C10 as claimed: two overlapping requests for the same hash whose selects
\* both found no row both run the pipeline and both upsert (the store
\* failing neither upsert), and the upsert that comes last leaves its own
\* bundle as the row.
C10_ToleratedRace ==
  [][\A c1, c2 \in Calls :
       ( /\ Overlap(c1, c2)' /\ text_hash[c1] = text_hash[c2]
         /\ Done(c1)' /\ Done(c2)'
         /\ Has(c1, "miss")' /\ Has(c2, "miss")'
         /\ ~Has(c1, "upsertError")' /\ ~Has(c2, "upsertError")' )
       => /\ Has(c1, "segment")' /\ Has(c2, "segment")'
          /\ Has(c1, "stored")' /\ Has(c2, "stored")'
          /\ Finishes(c2) => RowAsBundle(store'[text_hash[c2]]) = response'[c2].body]_vars

----------------------------------------------------------------------------
\* What a bundle holds, and what fails a request

\* C11 as claimed: every bundle the handler computed and answered with has
\* a definitions entry for every phrase that contains an ideograph,
\* whatever the LLM answered and whether or not the key is set.
C11_CompleteBundle ==
  \A c \in Calls :
    (Answered(c) /\ Has(c, "segment"))
    => LET body == response[c].body
       IN \A i \in 1..Len(body.phrases) :
            HasChinese(body.phrases[i].text)
            => body.phrases[i].text \in DOMAIN body.definitions

\* C12 as claimed: a request that called the LLM, for definitions or for
\* sentence translations, is answered with success, whatever became of
\* the LLM request.
C12_LLMFailureNeverFails ==
  \A c \in Calls :
    (Done(c) /\ (Has(c, "defLLM") \/ Has(c, "sentLLM"))) => response[c].status = 200

\* C18: a request whose text or text_hash is missing or empty is answered
\* 400 in the step that receives it, and does nothing else: no select, no
\* segmentation, no LLM request, no upsert, and the table is as it was.
C18_InputErrorsRejected ==
  [][\A c \in Calls :
       ( /\ pc[c] = "idle" /\ pc'[c] # "idle"
         /\ text'[c] = EmptyText \/ text_hash'[c] = EmptyHash )
       => /\ pc'[c] = "done"
          /\ response'[c] = ErrorResponse(400)
          /\ events'[c] = <<"respond">>
          /\ store' = store]_vars

\* A request with a text and an empty text_hash was answered 400 while the
\* table holds a row.
C18_Witness ==
  /\ store # << >>
  /\ \E c \in Calls :
       /\ Done(c) /\ text[c] # EmptyText /\ text_hash[c] = EmptyHash
       /\ response[c] = ErrorResponse(400)

\* C19 as claimed: a request whose select returned an error goes on as on
\* a miss, segmenting the text, and is answered with a bundle.
C19_ReadErrorIsMiss ==
  \A c \in Calls :
    (Done(c) /\ Has(c, "selectError")) => (Has(c, "segment") /\ response[c].status = 200)

\* C20: the step that resolves the upsert answers 200 with the bundle the
\* request computed, the same whether the upsert returned an error or not;
\* on an error the table is left as it was.
C20_WriteErrorStillAnswers ==
  [][\A c \in Calls :
       (pc[c] = "upsert" /\ Finishes(c))
       => /\ response'[c] =
               OkResponse(Bundle(phrases[c], definitions[c], sentenceTranslations[c]))
          /\ Has(c, "upsertError")' => store' = store]_vars

\* A request whose upsert failed was answered with a bundle that carries
\* definitions, and the table holds no row for its hash.
C20_Witness ==
  \E c \in Calls :
    /\ Answered(c) /\ Has(c, "upsertError")
    /\ response[c].body.definitions # EmptyMap
    /\ text_hash[c] \notin DOMAIN store

----------------------------------------------------------------------------
\* lookup-definitions

LookupDone(c) == lookupPc[c] = "done"
LookupHas(c, e) == \E i \in 1..Len(lookupEvents[c]) : lookupEvents[c][i] = e
Requested(c) == {lookupBody[c].phrases[1][i] : i \in 1..Len(lookupBody[c].phrases[1])}

\* The LLM gave the request nothing: the fetch rejected, the reply was
\* non-2xx, or the key is not set.
LLMErrored(c) ==
  LookupHas(c, "llmThrows") \/ LookupHas(c, "llmNotOk") \/ LookupHas(c, "noKey")

\* C13: a request the LLM gave nothing (no record of its audio_hash having
\* been applied) is answered 200, with the sentinel and an empty pinyin for
\* every phrase the dictionary does not have and the dictionary's entry for
\* every phrase it has.
C13_LookupDegrades ==
  \A c \in Calls :
    (LookupDone(c) /\ LLMErrored(c))
    => /\ lookupResponse[c].status = 200
       /\ DOMAIN lookupResponse[c].definitions = Requested(c)
       /\ \A phrase \in Requested(c) :
            lookupResponse[c].definitions[phrase] =
              IF phrase \in DOMAIN Cedict
              THEN [pinyin |-> Cedict[phrase].pinyin, definitions |-> Cedict[phrase].english[1]]
              ELSE [pinyin |-> "", definitions |-> Sentinel]

\* A request for a word of the dictionary and a phrase outside it was
\* answered after its fetch rejected.
C13_Witness ==
  \E c \in Calls :
    /\ LookupDone(c) /\ LookupHas(c, "llmThrows")
    /\ Requested(c) = {WordAB, PhraseA}

\* C14 as claimed: a request answered 200 has an entry for every phrase it
\* asked for, with or without audio_hash, with or without a record.
C14_EntryForEveryPhrase ==
  \A c \in Calls :
    (LookupDone(c) /\ lookupResponse[c].status = 200)
    => Requested(c) \subseteq DOMAIN lookupResponse[c].definitions

\* The request whose upsert this step resolves had its own select failed by
\* the store.
BlindLookup ==
  \E c \in Calls :
    lookupPc[c] = "cacheWrite" /\ lookupPc'[c] = "done" /\ LookupHas(c, "selectError")

\* C15 as claimed: a phrase-to-definition pair in the record of an
\* audio_hash is in it after every step, in every interleaving of the
\* requests for that hash.
C15_WriteIsMerge ==
  [][\A h \in DOMAIN translations :
       \A phrase \in DOMAIN translations[h] :
         \/ /\ phrase \in DOMAIN translations'[h]
            /\ translations'[h][phrase] = translations[h][phrase]
         \/ BlindLookup]_vars

----------------------------------------------------------------------------
\* The Listen flow

FlowHas(f, e) == \E i \in 1..Len(flowEvents[f]) : flowEvents[f][i] = e

\* The hash computation and the two requests of a run, in the order made.
FlowSteps(f) ==
  LET IsStep(e) == e \in {"hash", "check", "upload"}
  IN SelectSeq(flowEvents[f], IsStep)

\* C16: a run computes the hash, then asks the cache check, then uploads,
\* in that order; and a run whose cache check answered cached: true makes
\* no request to the transcribe endpoint and ends with the transcript of
\* the record as its transcript, marked cached.
C16_CacheShortCircuit ==
  \A f \in Calls :
    /\ FlowSteps(f) \in {<< >>, <<"hash">>, <<"hash", "check">>, <<"hash", "check", "upload">>}
    /\ FlowHas(f, "cachedTrue")
       => /\ ~FlowHas(f, "upload") /\ ~FlowHas(f, "stt")
          /\ flowPc[f] = "done"
          /\ isCached[f]
          /\ LET row == transcripts[fileHash[f]]
             IN transcript[f] = Just(ClientTranscript(row.transcript, fileHash[f],
                                                      row.language_code,
                                                      row.language_probability))

\* One run transcribed a file and stored the transcript, a later run for
\* the same file got cached: true.
C16_Witness ==
  \E f, g \in Calls :
    /\ FlowHas(f, "inserted")
    /\ FlowHas(g, "cachedTrue") /\ fileHash[g] = fileHash[f]

\* C17 as claimed: in no step is the speech-to-text request made for a
\* file_hash that has a record in audio_transcripts.
C17_NoUploadWhenCached ==
  [][\A f \in Calls :
       (flowPc[f] = "upload" /\ flowPc'[f] = "stt") => fileHash[f] \notin DOMAIN transcripts]_vars

----------------------------------------------------------------------------
\* analyze: errors, batches, phases

\* C21: a request answered with an error (400 or 500) never issued its
\* upsert, so wrote nothing to text_analysis, and its response carries no
\* bundle.
C21_AllOrNothing ==
  \A c \in Calls :
    (Done(c) /\ response[c].status # 200)
    => /\ ~Has(c, "upsert") /\ ~Has(c, "stored") /\ ~Has(c, "upsertError")
       /\ DOMAIN response[c] = {"status"}

\* A request was answered 500 after both its LLM requests were made, while
\* the table holds the row another request wrote for its hash.
C21_Witness ==
  \E c \in Calls :
    /\ Done(c) /\ response[c].status = 500
    /\ Has(c, "sentLLM")
    /\ text_hash[c] \in DOMAIN store

\* C22 as claimed: the batch of the definition request holds no phrase
\* CC-CEDICT has an entry for.
C22_DictionaryPriority ==
  \A c \in Calls :
    Has(c, "defLLM")
    => LET batch == CollectNotFound(SegmentText(text[c]))
       IN \A i \in 1..Len(batch) : batch[i] \notin DOMAIN Cedict

\* The phrase has an ideograph.
Lexical(phrase) == \E i \in 1..Len(phrase) : phrase[i] \in Ideographs

\* C23: no key of the definitions a request is answered with is a phrase
\* without an ideograph, and the batch of a definition request in flight
\* holds no such phrase.
C23_NonLexicalFiltered ==
  \A c \in Calls :
    /\ Answered(c) => \A phrase \in DOMAIN response[c].body.definitions : Lexical(phrase)
    /\ pc[c] = "defFetch"
       => LET batch == CollectNotFound(phrases[c])
          IN \A i \in 1..Len(batch) : Lexical(batch[i])

\* A request whose text has a phrase without an ideograph was answered
\* with definitions the LLM gave.
C23_Witness ==
  \E c \in Calls :
    /\ Answered(c) /\ Has(c, "defLLM")
    /\ response[c].body.definitions # EmptyMap
    /\ \E i \in 1..Len(response[c].body.phrases) : ~Lexical(response[c].body.phrases[i].text)

\* C24 as claimed: a request with include_sentences whose sentence request
\* the LLM answered with lines is answered with an entry for every sentence
\* of its text.
C24_SentencePlaceholders ==
  \A c \in Calls :
    ( /\ Answered(c) /\ include_sentences[c] /\ Has(c, "sentLLM")
      /\ ~IsNull(response[c].body.sentence_translations) )
    => LET sentences == SplitSentences(text[c])
       IN \A i \in 1..Len(sentences) :
            sentences[i] \in DOMAIN response[c].body.sentence_translations[1]

\* The place of a phase in the handler.
Ranks ==
  [e \in {"select", "miss", "selectError", "hit", "segment", "defLLM", "sentLLM",
          "upsert", "stored", "upsertError", "respond"} |->
     CASE e = "select" -> 1
       [] e \in {"miss", "selectError", "hit"} -> 2
       [] e = "segment" -> 3
       [] e = "defLLM" -> 4
       [] e = "sentLLM" -> 5
       [] e = "upsert" -> 6
       [] e \in {"stored", "upsertError"} -> 7
       [] e = "respond" -> 8]

Rank(e) == Ranks[e]

\* C25: when a request that missed the cache (or whose select failed) is
\* answered, what it did is in the order select, segmentation, definition
\* request, sentence request, upsert, response, each at most once; and a
\* bundle is sent only after segmentation and after the upsert has
\* returned.
C25_PhasesInOrder ==
  [][\A c \in Calls :
       (Finishes(c) /\ (Has(c, "miss")' \/ Has(c, "selectError")'))
       => /\ \A i \in 1..(Len(events'[c]) - 1) :
               Rank(events'[c][i]) < Rank(events'[c][i + 1])
          /\ events'[c][1] = "select"
          /\ events'[c][Len(events'[c])] = "respond"
          /\ Answered(c)'
             => /\ Has(c, "segment")' /\ Has(c, "upsert")'
                /\ Has(c, "stored")' \/ Has(c, "upsertError")']_vars

\* A request that missed went through every phase.
C25_Witness ==
  \E c \in Calls :
    events[c] = <<"select", "miss", "segment", "defLLM", "sentLLM", "upsert", "stored", "respond">>

\* e is not twice among what the request did.
AtMostOnce(c, e) ==
  \A i \in 1..Len(events[c]) :
    events[c][i] = e => \A j \in (i + 1)..Len(events[c]) : events[c][j] # e

Handled(f) == ~FlowHas(f, "unavailable")

\* C27: the step in which the handler answers a cache check writes nothing
\* and answers 200: with cached: true and the record's transcript,
\* language_code and language_probability when the select returned the
\* record of the hash, with cached: false when there is no record or the
\* select returned an error.
C27_CheckNeverErrors ==
  [][\A f \in Calls :
       (flowPc[f] = "check" /\ flowPc'[f] # "check" /\ Handled(f)')
       => /\ transcripts' = transcripts
          /\ cacheResponse'[f] =
               IF fileHash[f] \in DOMAIN transcripts /\ ~FlowHas(f, "error")'
               THEN [status |-> 200, cached |-> TRUE,
                     transcript |-> transcripts[fileHash[f]].transcript,
                     language_code |-> transcripts[fileHash[f]].language_code,
                     language_probability |-> transcripts[fileHash[f]].language_probability]
               ELSE [status |-> 200, cached |-> FALSE]]_vars

\* A check of a hash that has a record was answered cached: false because
\* the select returned an error, while another check was answered with the
\* record.
C27_Witness ==
  \E f, g \in Calls :
    /\ FlowHas(f, "error") /\ fileHash[f] \in DOMAIN transcripts
    /\ cacheResponse[f] = [status |-> 200, cached |-> FALSE]
    /\ cacheResponse[g].status = 200 /\ cacheResponse[g].cached

----------------------------------------------------------------------------
\* The three tables

\* C28: a step of analyze leaves transcript_translations and
\* audio_transcripts as they were, a step of lookup-definitions leaves
\* text_analysis and audio_transcripts as they were, and a step of the
\* cache check or of transcribe leaves text_analysis and
\* transcript_translations as they were.
C28_StoresIndependent ==
  [][/\ pc' # pc => (translations' = translations /\ transcripts' = transcripts)
     /\ lookupPc' # lookupPc => (store' = store /\ transcripts' = transcripts)
     /\ flowPc' # flowPc => (store' = store /\ translations' = translations)]_vars

\* The three tables each hold a record under the same hex string.
C28_Witness ==
  /\ "a1" \in DOMAIN store
  /\ "a1" \in DOMAIN translations
  /\ "a1" \in DOMAIN transcripts

----------------------------------------------------------------------------
\* Phrase offsets

\* C26: for a text of one character or more and segments that concatenate
\* to it, the phrases built by analyze and by segment-text are the
\* segments in order, the first starts at 0, each ends where the next
\* starts, the last ends at the length of the text, and each is as long as
\* its text, which is the text between its start and its end.
C26_SegmentationCoverage ==
  ~IsNull(output)
  => LET ps == output[1].phrases
         t == input.text
     IN /\ Len(ps) = Len(input.segments)
        /\ ps[1].start = 0
        /\ ps[Len(ps)].end = Len(t)
        /\ \A i \in 1..(Len(ps) - 1) : ps[i].end = ps[i + 1].start
        /\ \A i \in 1..Len(ps) :
             /\ ps[i].text = input.segments[i]
             /\ ps[i].end - ps[i].start = Len(ps[i].text)
             /\ ps[i].text = SubSeq(t, ps[i].start + 1, ps[i].end)

\* analyze built the phrases of a text in which a segment occurs twice,
\* with another segment in between.
C26_Witness ==
  /\ ~IsNull(output) /\ output[1].by = "analyze-text"
  /\ Len(input.segments) = 3
  /\ input.segments[1] = input.segments[3]
  /\ input.segments[1] # input.segments[2]

----------------------------------------------------------------------------
\* Numbered replies

\* The line starts with digits whose value is i, then a dot, then text.
NumberedAs(line, i) ==
  LET ds == LeadingDigits(line)
  IN /\ ds # << >>
     /\ Len(line) > Len(ds) + 1
     /\ line[Len(ds) + 1] = "dot"
     /\ ParseInt(ds) = i

\* The text after the number and the dot, without the spaces around it.
TextAfterNumber(line) == Trim(SubSeq(line, Len(LeadingDigits(line)) + 2, Len(line)))

\* Places of the lines numbered i among the lines of a reply.
LinesNumbered(lines, i) == {k \in 1..Len(lines) : NumberedAs(lines[k], i)}

\* C29: in analyze and in lookupDefinitions, item i of the batch is given a
\* value from the reply exactly when some line of the reply is numbered i,
\* and the value is the text after "i." on the first such line, wherever
\* that line stands and whatever the other lines are (reordered, missing,
\* unnumbered, numbered outside the batch).
C29_ParsedByNumber ==
  ~IsNull(output)
  => LET lines == ReplyLines(input.responseText)
         given == IF output[1].by = "analyze-text" THEN output[1].definitions
                  ELSE output[1].translationsForCache
     IN \A i \in 1..Len(input.batch) :
          LET phrase == input.batch[i]
              numbered == LinesNumbered(lines, i)
          IN /\ phrase \in DOMAIN given <=> numbered # {}
             /\ numbered # {} =>
                  /\ output[1].definitions[phrase].definitions
                       = TextAfterNumber(lines[Min(numbered)])
                  /\ output[1].by = "lookup-definitions"
                       => given[phrase] = TextAfterNumber(lines[Min(numbered)])

\* A reply whose first line is numbered 2 and whose last line is numbered
\* 1, parsed by analyze for a batch of two, which get different values.
C29_Witness ==
  /\ ~IsNull(output) /\ output[1].by = "analyze-text"
  /\ Len(input.batch) = 2
  /\ LET lines == ReplyLines(input.responseText)
     IN /\ Len(lines) = 3
        /\ NumberedAs(lines[1], 2) /\ NumberedAs(lines[3], 1)
        /\ ~NumberedAs(lines[2], 1) /\ ~NumberedAs(lines[2], 2)
  /\ DOMAIN output[1].definitions = {PhraseA, PhraseB}
  /\ output[1].definitions[PhraseA] # output[1].definitions[PhraseB]

----------------------------------------------------------------------------
\* The supplied hash

\* C31: a request answered from the row of its text_hash gets that row as
\* its bundle, whatever its text is: the same bundle as the request that
\* stored the row and was answered before it, with no request for the
\* hash in between.  A step that writes the table writes one row, under
\* the text_hash of the request, made of the phrases of the request's text
\* and equal to the bundle the request is answered with.
C31_HashTrusted ==
  [][\A c \in Calls :
       /\ (Finishes(c) /\ Has(c, "hit")' /\ ~Has(c, "segment")')
          => /\ response'[c] = OkResponse(RowAsBundle(store[text_hash[c]]))
             /\ \A c1 \in Calls :
                  ( /\ Answered(c1) /\ Has(c1, "stored")
                    /\ text_hash[c1] = text_hash[c]
                    /\ InSequence(c1, c)' )
                  => response'[c] = response[c1]
       /\ (pc[c] = "upsert" /\ pc'[c] # "upsert" /\ store' # store)
          => /\ DOMAIN store' = DOMAIN store \cup {text_hash[c]}
             /\ \A h \in DOMAIN store : h # text_hash[c] => store'[h] = store[h]
             /\ store'[text_hash[c]].segmented_phrases = SegmentText(text[c])
             /\ response'[c] = OkResponse(RowAsBundle(store'[text_hash[c]]))]_vars

\* A request for TextB under the hash of the row computed from TextA was
\* answered with that row.
C31_Witness ==
  \E c1, c2 \in Calls :
    /\ Answered(c1) /\ Has(c1, "stored") /\ text[c1] = TextA
    /\ Done(c2) /\ events[c2] = <<"select", "hit", "respond">>
    /\ text[c2] = TextB /\ text_hash[c2] = text_hash[c1]
    /\ response[c2] = response[c1]
    /\ response[c2].body.phrases = SegmentText(TextA)
    /\ SegmentText(TextA) # SegmentText(TextB)

----------------------------------------------------------------------------
\* Sentence splitting

\* The text cut after each terminator; what follows the last terminator is
\* the last piece.
RECURSIVE Pieces(_)
Pieces(t) ==
  IF t = << >> THEN << >>
  ELSE LET ends == {i \in 1..Len(t) : t[i] \in Terminators}
           e == IF ends = {} THEN Len(t) ELSE Min(ends)
       IN <<SubSeq(t, 1, e)>> \o Pieces(SubSeq(t, e + 1, Len(t)))

Blank(piece) == \A i \in 1..Len(piece) : piece[i] \in Whitespace

NotBlank(piece) == ~Blank(piece)

\* The piece has a clause before its terminator.
HasClause(piece) == piece[1] \notin Terminators

ClauseNotBlank(piece) == HasClause(piece) /\ NotBlank(piece)

Trimmed(ps) == [i \in 1..Len(ps) |-> Trim(ps[i])]

BothSplit == ~IsNull(output.server) /\ ~IsNull(output.client)

\* C32 as claimed: the server and the client both emit, in text order and
\* without the spaces around them, the pieces of the text cut after each
\* terminator, all but the pieces made of whitespace only.
C32_SentenceSplitting ==
  BothSplit
  => /\ output.server[1] = Trimmed(SelectSeq(Pieces(input), NotBlank))
     /\ output.client[1] = output.server[1]

\* C32 as amended: a terminator with no clause before it is no sentence of
\* its own; the server and the client both emit, in text order and without
\* the spaces around them, the pieces that have a clause and are not made
\* of whitespace only, and for a text in which no piece has a clause, the
\* whole text as one sentence unless it is whitespace only.
C32_SentenceSplittingWithClause ==
  BothSplit
  => /\ output.server[1] =
          IF \E i \in 1..Len(input) : input[i] \notin Terminators
          THEN Trimmed(SelectSeq(Pieces(input), ClauseNotBlank))
          ELSE Trimmed(SelectSeq(<<input>>, NotBlank))
     /\ output.client[1] = output.server[1]

\* Both sides split a text that ends with two terminators after a clause,
\* and emitted the clause with the first of them.
C32_Witness ==
  /\ BothSplit
  /\ Len(input) = 3
  /\ input[1] \in Ideographs /\ input[2] = "stop" /\ input[3] = "stop"
  /\ output.client[1] = <<SubSeq(input, 1, 2)>>

----------------------------------------------------------------------------
\* The pages

NoneInFlight == \A r \in AnalyzeRequests : InFlightCount(r) = 0

\* C33: on the Listen page with a transcript loaded, from some point on no
\* analyze request is in flight and no effect is about to start one.
C33_FetchingQuiesces == <>[](NoneInFlight /\ ~transcriptEffect /\ ~sentenceEffect)

\* C34: once no analyze request is in flight, the phrases and
\* phraseTranslations of the hook are those of the text segmentAndTranslate
\* was last called for.
C34_NoStaleAnalysis ==
  (NoneInFlight /\ ~IsNull(lastText))
  => \E withSentences \in BOOLEAN :
       /\ shownPhrases = Bundles[lastText[1]][withSentences].phrases
       /\ phraseTranslations = Translations(Bundles[lastText[1]][withSentences])

\* C35: a transcript the Listen page shows carries the hash of the file
\* the page has selected, and none is shown while no file is selected.
C35_TranscriptOfCurrentFile ==
  ~IsNull(shownTranscript)
  => /\ ~IsNull(selectedFile)
     /\ shownTranscript[1].audio_hash = Sha256(selectedFile[1])

----------------------------------------------------------------------------
\* The transcript records

\* Run f receives a transcription in this step.
Transcribed(f) ==
  flowPc[f] = "stt" /\ flowPc'[f] = "done" /\ IsNull(transcriptError'[f])

\* C36: no step modifies or removes a transcript record; a run that
\* receives a transcription keeps that very transcription, under its own
\* hash, whether or not a record of the hash exists, and the step writes
\* at most the record of that transcription, under that hash, when the
\* hash had none.
C36_FirstWriterWins ==
  [][/\ \A h \in DOMAIN transcripts :
          h \in DOMAIN transcripts' /\ transcripts'[h] = transcripts[h]
     /\ \A f \in Calls :
          Transcribed(f)
          => \E transcriptData \in SttTranscripts :
               /\ transcript'[f] =
                    Just(ClientTranscript(transcriptData, fileHash[f],
                                          transcriptData.language_code,
                                          transcriptData.language_probability))
               /\ \/ transcripts' = transcripts
                  \/ /\ fileHash[f] \notin DOMAIN transcripts
                     /\ transcripts' = MapPut(transcripts, fileHash[f],
                                              TranscriptRow(transcriptData))]_vars

\* Two runs for one file received different transcriptions; the record is
\* that of the run whose insert came first, the other insert was refused.
C36_Witness ==
  /\ storeErrors = 0
  /\ flowPc[1] = "done" /\ flowPc[2] = "done"
  /\ fileHash[1] = fileHash[2]
  /\ FlowHas(1, "insertError") /\ FlowHas(2, "inserted")
  /\ ~IsNull(transcript[1]) /\ ~IsNull(transcript[2])
  /\ transcript[1][1].transcript # transcript[2][1].transcript
  /\ transcripts[fileHash[1]].transcript = transcript[2][1].transcript

\* The transcription run f asked for fails in this step.
TranscriptionFails(f) ==
  flowPc[f] \in {"upload", "stt"} /\ flowPc'[f] = "done" /\ ~IsNull(transcriptError'[f])

\* The cache check of run f is answered in this step.
CheckAnswered(f) == flowPc[f] = "check" /\ flowPc'[f] # "check"

\* C39: a step in which a transcription fails (no file, no file_hash, no
\* key, or a failing speech-to-text call) leaves the transcript records as
\* they are; and a cache check the handler answers for a hash under which
\* no transcription has been stored is answered 200 with cached: false.
C39_FailureLeavesCache ==
  [][\A f \in Calls :
       /\ TranscriptionFails(f) => transcripts' = transcripts
       /\ ( /\ CheckAnswered(f) /\ Handled(f)'
            /\ ~\E g \in Calls : fileHash[g] = fileHash[f] /\ FlowHas(g, "inserted") )
          => cacheResponse'[f] = [status |-> 200, cached |-> FALSE]]_vars

\* The upload of run 1 was rejected for its missing file; the cache check
\* of run 2, for the same hash, is answered cached: false.
C39_Witness ==
  /\ flowPc[1] = "done"
  /\ transcriptError[1] = Just("No audio file provided")
  /\ fileHash[2] = fileHash[1]
  /\ flowPc[2] = "upload"
  /\ cacheResponse[2] = [status |-> 200, cached |-> FALSE]
  /\ transcripts = << >>

----------------------------------------------------------------------------
\* Degraded results

\* The definition request of c1 failed (it rejected and the request was
\* answered 500, or it was answered non-2xx and left no definition) or was
\* not made.
DefinitionStageDegraded(c1) ==
  /\ Done(c1) /\ Has(c1, "segment")
  /\ \/ ~Has(c1, "defLLM")
     \/ response[c1].status = 500
     \/ response[c1].status = 200 /\ response[c1].body.definitions = EmptyMap

\* C37 as claimed: when the definition request of analyze(text, h, false)
\* failed or was not made, the request was answered with a bundle, and a
\* later analyze(text, h, false), with no other request for h in between
\* and no store fault, is answered that very bundle, which is the record
\* of h, and makes no call to the tokenizer or to the LLM.
C37_DegradedCached ==
  [][\A c \in Calls : \A c1 \in Calls :
       ( /\ Finishes(c)
         /\ SameRequest(c1, c, FALSE)
         /\ InSequence(c1, c)'
         /\ DefinitionStageDegraded(c1)
         /\ storeErrors' = 0 )
       => /\ response[c1].status = 200
          /\ response'[c] = response[c1]
          /\ text_hash[c] \in DOMAIN store'
          /\ RowAsBundle(store'[text_hash[c]]) = response[c1].body
          /\ NoExternalCall(c)']_vars

----------------------------------------------------------------------------
\* A phrase text at several positions of the batch

\* C38 as claimed: in lookup-definitions, a phrase for one of whose
\* positions the reply has a numbered line is returned with a definition
\* of the reply, not with 'No definition found'.
C38_OneDefinitionUnderDuplicates ==
  (~IsNull(output) /\ output[1].by = "lookup-definitions")
  => LET lines == ReplyLines(input.responseText)
     IN \A i \in 1..Len(input.batch) :
          LinesNumbered(lines, i) # {}
          => output[1].definitions[input.batch[i]].definitions # Sentinel

====
